---- MODULE Spec2Model ----
(***************************************************************************)
(* PatPlacer image processor (class ImageProcessor): palette matching,     *)
(* quantization and dithering, resampling and region simplification.       *)
(*                                                                         *)
(* JavaScript numbers are modelled in fixed point.  A colour channel that  *)
(* may be fractional (the Float32 dither work buffer, a perturbed ordered- *)
(* dither sample) is an integer number of 1/FP units; colour-space values  *)
(* are scaled integers, the scale being stated at each conversion.  All    *)
(* intermediate products stay inside 32 bits.                              *)
(*                                                                         *)
(* A value computed once and used several times is bound by a set          *)
(* comprehension over a singleton, Only({ body : x \in {value} }), so that  *)
(* it is evaluated once, as the local constant of the code is.             *)
(***************************************************************************)
EXTENDS Integers, Sequences, FiniteSets, TLC

VARIABLES
    canvas,       \* this.canvas / this.ctx: [width, height, data], data a sequence of <<r,g,b,a>>
    colorCache,   \* this._colorCache: cacheKey -> {id, rgb}
    labCache,     \* this._labCache: packed rgb key -> LAB triple
    ditherBuffers, \* this._ditherWorkBuf / this._ditherEligibleBuf: the pixel count they are sized for, 0 for null
    pipeline,     \* the position of the panel's pipeline function and its processingSettings
    call,         \* the method invocation that produced the current state, with its arguments
    ret           \* what that invocation returned

vars == <<canvas, colorCache, labCache, ditherBuffers, pipeline, call, ret>>

-----------------------------------------------------------------------------
(* Arithmetic helpers *)

\* The element of a singleton set
Only(S) == CHOOSE x \in S : TRUE

Min2(a, b) == IF a < b THEN a ELSE b
Max2(a, b) == IF a > b THEN a ELSE b
Abs(a) == IF a < 0 THEN -a ELSE a

\* Math.round for a non-negative quotient n/d: floor(n/d + 0.5)
RoundDiv(n, d) == (2 * n + d) \div (2 * d)

\* Division truncating toward zero, as a scaled JavaScript quotient rounded toward zero
TruncDiv(n, d) == IF n >= 0 THEN n \div d ELSE -((-n) \div d)

RECURSIVE RootSearch(_, _, _, _)
\* largest y in lo..hi with y^k <= n (k = 2 or 3), by bisection
RootSearch(n, k, lo, hi) ==
    IF lo >= hi THEN lo
    ELSE LET mid == (lo + hi + 1) \div 2
             fits == (IF k = 2 THEN mid * mid ELSE mid * mid * mid) <= n
         IN RootSearch(n, k, IF fits THEN mid ELSE lo, IF fits THEN hi ELSE mid - 1)

\* Math.sqrt on n <= 2^31-1: floor of the square root
ISqrt(n) == RootSearch(n, 2, 0, 46340)

\* Math.pow(t, 1/3) / Math.cbrt(t) for t = n / 10^4: the result scaled by 10^5.
\* The integer root of n * 10^5 gives three digits; one Newton correction gives two more.
Cbrt5(n) ==
    IF n <= 0 THEN 0
    ELSE Only({ y * 100 + ((n * 100000 - y * y * y) * 100) \div (3 * y * y) :
                y \in {RootSearch(n * 100000, 3, 0, 1290)} })

-----------------------------------------------------------------------------
(* Colour channels *)

\* Scale of a fractional channel value: v stands for v / FP
FP == 16

\* An integer RGB triple as a fixed-point triple
ToFP(rgb) == <<rgb[1] * FP, rgb[2] * FP, rgb[3] * FP>>

\* ToInt32 of a non-negative channel (the operand of r << 16 in a cache key)
TruncFP(v) == v \div FP

\* x > 0.04045 ? Math.pow((x + 0.055) / 1.055, 2.4) : x / 12.92 at x = c / 255,
\* c = 0..255, scaled by 10^4 and rounded
SrgbLinearTable == <<
      0, 3, 6, 9, 12, 15, 18, 21, 24, 27, 30, 33, 37, 40, 44, 48,
      52, 56, 60, 65, 70, 75, 80, 86, 91, 97, 103, 110, 116, 123, 130, 137,
      144, 152, 160, 168, 176, 185, 194, 203, 212, 222, 232, 242, 252, 262, 273, 284,
      296, 307, 319, 331, 343, 356, 369, 382, 395, 409, 423, 437, 452, 467, 482, 497,
      513, 529, 545, 561, 578, 595, 612, 630, 648, 666, 685, 704, 723, 742, 762, 782,
      802, 823, 844, 865, 887, 908, 931, 953, 976, 999, 1022, 1046, 1070, 1095, 1119, 1144,
      1170, 1195, 1221, 1248, 1274, 1301, 1329, 1356, 1384, 1413, 1441, 1470, 1500, 1529, 1559, 1590,
      1620, 1651, 1683, 1714, 1746, 1779, 1812, 1845, 1878, 1912, 1946, 1981, 2016, 2051, 2086, 2122,
      2159, 2195, 2232, 2270, 2307, 2346, 2384, 2423, 2462, 2502, 2542, 2582, 2623, 2664, 2705, 2747,
      2789, 2831, 2874, 2918, 2961, 3005, 3050, 3095, 3140, 3185, 3231, 3278, 3325, 3372, 3419, 3467,
      3515, 3564, 3613, 3663, 3712, 3763, 3813, 3864, 3916, 3968, 4020, 4072, 4125, 4179, 4233, 4287,
      4342, 4397, 4452, 4508, 4564, 4621, 4678, 4735, 4793, 4851, 4910, 4969, 5029, 5089, 5149, 5210,
      5271, 5333, 5395, 5457, 5520, 5583, 5647, 5711, 5776, 5841, 5906, 5972, 6038, 6105, 6172, 6240,
      6308, 6376, 6445, 6514, 6584, 6654, 6724, 6795, 6867, 6939, 7011, 7084, 7157, 7231, 7305, 7379,
      7454, 7529, 7605, 7682, 7758, 7835, 7913, 7991, 8070, 8148, 8228, 8308, 8388, 8469, 8550, 8632,
      8714, 8796, 8879, 8963, 9047, 9131, 9216, 9301, 9387, 9473, 9560, 9647, 9734, 9823, 9911, 10000
>>

\* The same for a fixed-point channel v (0 .. 255*FP), linear between integer channels
SrgbLinear(v) ==
    Only({ at[0] + ((at[1] - at[0]) * (v % FP)) \div FP :
           at \in {[k \in 0..1 |-> SrgbLinearTable[Min2((v \div FP) + k, 255) + 1]]} })

\* The three channels of a fixed-point RGB triple, linearized
LinearRgb(v) == [i \in 1..3 |-> SrgbLinear(v[i])]

-----------------------------------------------------------------------------
(* Colour-space conversions *)

\* X > 0.008856 ? Math.pow(X, 1/3) : 7.787 * X + 16/116, t = X * 10^4, result * 10^5
LabF(t) == IF t >= 89 THEN Cbrt5(t) ELSE (7787 * t) \div 100 + 13793

\* The sRGB matrix and the D65 normalisation of _rgbToLab: <<X/Xn, Y/Yn, Z/Zn>> * 10^4
LabXyz(lin) ==
    <<(((lin[1] * 41246 + lin[2] * 35758 + lin[3] * 18044) \div 100000) * 100000) \div 95047,
      (lin[1] * 21267 + lin[2] * 71515 + lin[3] * 7218) \div 100000,
      (((lin[1] * 1933 + lin[2] * 11919 + lin[3] * 95030) \div 100000) * 100000) \div 108883>>

\* [116 * Y - 16, 500 * (X - Y), 200 * (Y - Z)] in 1/100 units, f = <<X, Y, Z>> * 10^5
LabFromF(f) ==
    <<(116 * f[2] - 1600000) \div 1000, (f[1] - f[2]) \div 2, (f[2] - f[3]) \div 5>>

\* _rgbToLab: v a fixed-point RGB triple; the result is <<L, a, b>> in 1/100 units
RgbToLab(v) ==
    Only({ Only({ LabFromF(f) : f \in {[i \in 1..3 |-> LabF(xyz[i])]} }) :
           xyz \in { Only({ LabXyz(lin) : lin \in {LinearRgb(v)} }) } })

\* key = (r << 16) | (g << 8) | b: the shifts truncate a fractional channel
LabKey(v) == TruncFP(v[1]) * 65536 + TruncFP(v[2]) * 256 + TruncFP(v[3])

\* _getLab: [lab, cache], the value returned (read from the cache when the key is
\* present, computed and stored otherwise) and the cache afterwards
GetLab(cache, v) ==
    IF LabKey(v) \in DOMAIN cache
    THEN [lab |-> cache[LabKey(v)], cache |-> cache]
    ELSE Only({ [lab |-> lab, cache |-> cache @@ (LabKey(v) :> lab)] :
                lab \in {RgbToLab(v)} })

\* The hue of _rgbToHsv in 1/100 degree, from the channels, max and delta
HsvHue(c, max, delta) ==
    Only({ IF h0 < 0 THEN h0 + 36000 ELSE h0 :
           h0 \in { IF delta = 0 THEN 0
                    ELSE IF max = c[1] THEN TruncDiv((c[2] - c[3]) * 6000, delta)
                    ELSE IF max = c[2] THEN TruncDiv((c[3] - c[1]) * 6000, delta) + 12000
                    ELSE TruncDiv((c[1] - c[2]) * 6000, delta) + 24000 } })

\* _rgbToHsv: <<h, s, v>> with h in 1/100 degree and s, v scaled by 10^4
RgbToHsv(c) ==
    Only({ <<HsvHue(c, m[1], m[1] - m[2]),
             IF m[1] = 0 THEN 0 ELSE ((m[1] - m[2]) * 10000) \div m[1],
             (m[1] * 10000) \div (255 * FP)>> :
           m \in {<<Max2(c[1], Max2(c[2], c[3])), Min2(c[1], Min2(c[2], c[3]))>>} })

\* The first matrix of _rgbToOklab: <<l, m, s>> * 10^4
OklabLms(lin) ==
    <<(41222 * lin[1] + 53633 * lin[2] + 5145 * lin[3]) \div 100000,
      (21190 * lin[1] + 68070 * lin[2] + 10740 * lin[3]) \div 100000,
      (8830 * lin[1] + 28172 * lin[2] + 62998 * lin[3]) \div 100000>>

\* The second matrix of _rgbToOklab, q = <<l_, m_, s_>> * 10^5: <<L, a, b>> * 10^4
OklabFromRoots(q) ==
    <<(2105 * q[1] + 7936 * q[2] - 41 * q[3]) \div 100000,
      (1978 * q[1] - 2429 * q[2] + 451 * q[3]) \div 10000,
      (259 * q[1] + 7828 * q[2] - 8087 * q[3]) \div 100000>>

\* _rgbToOklab: <<L, a, b>> scaled by 10^4
RgbToOklab(c) ==
    Only({ Only({ OklabFromRoots(q) : q \in {[i \in 1..3 |-> Cbrt5(lms[i])]} }) :
           lms \in { Only({ OklabLms(lin) : lin \in {LinearRgb(c)} }) } })

Sq(a) == a * a

-----------------------------------------------------------------------------
(* Colour matching: findClosestPaletteColor *)

\* bestDist = Infinity
Infinity == 2147483647

\* floor(a * b / (d1 * d2)) without leaving 32 bits
MulShift(a, b, d1, d2) == (a * (b \div d1) + (a * (b % d1)) \div d1) \div d2

\* The 'rgb' distance of target t (fixed point) to palette colour p (integers).
\* Each red and blue term is truncated by >> 8; Math.sqrt is increasing, so the
\* radicand orders the candidates; the score is the radicand times FP*FP/4.
DistRgb(t, p) ==
    ((FP * FP) \div 4)
        * ( MulShift(1024 * FP + p[1] * FP + t[1], Sq(p[1] * FP - t[1]), 8 * FP * FP, 64 * FP)
          + MulShift(1534 * FP - p[1] * FP - t[1], Sq(p[3] * FP - t[3]), 8 * FP * FP, 64 * FP) )
    + Sq(p[2] * FP - t[2])

\* dh / 360 scaled by 10^4, from the absolute hue difference in 1/100 degree
HueDist(ad) == (Min2(ad, 36000 - ad) * 10000) \div 36000

\* The 'hsv' distance: dh*dh + (st-sp)**2 + (vt-vp)**2
DistHsv(t, p) ==
    Only({ Sq(HueDist(Abs(hsv[1][1] - hsv[2][1])))
           + Sq(hsv[1][2] - hsv[2][2]) + Sq(hsv[1][3] - hsv[2][3]) :
           hsv \in {[k \in 1..2 |-> RgbToHsv(IF k = 1 THEN t ELSE ToFP(p))]} })

\* The 'oklab' distance
DistOklab(t, p) ==
    Only({ Sq(ok[1][1] - ok[2][1]) + Sq(ok[1][2] - ok[2][2]) + Sq(ok[1][3] - ok[2][3]) :
           ok \in {[k \in 1..2 |-> RgbToOklab(IF k = 1 THEN t ELSE ToFP(p))]} })

\* (targetChroma - candChroma) ** 2 * chromaPenaltyWeight, weight in 1/100
PenaltyTerm(cd2, weight) == (cd2 \div 100) * weight + ((cd2 % 100) * weight) \div 100

\* The chroma penalty added to a LAB distance: chroma[1] is the target's, chroma[2]
\* the candidate's
ChromaPenalty(tl, pl, weight) ==
    Only({ IF chroma[1] > 2000 /\ chroma[2] < chroma[1]
           THEN PenaltyTerm(Sq(chroma[1] - chroma[2]), weight)
           ELSE 0 :
           chroma \in {[k \in 1..2 |-> ISqrt(IF k = 1 THEN Sq(tl[2]) + Sq(tl[3])
                                                     ELSE Sq(pl[2]) + Sq(pl[3]))]} })

\* DistLab with the lightness term left out of the sum
DistLabNoLightness(tl, pl, penalty, weight) ==
    Sq(tl[2] - pl[2]) + Sq(tl[3] - pl[3])
    + (IF penalty THEN ChromaPenalty(tl, pl, weight) ELSE 0)

\* The LAB distance between two LAB triples, with the optional chroma penalty
DistLab(tl, pl, penalty, weight) ==
    Sq(tl[1] - pl[1]) + Sq(tl[2] - pl[2]) + Sq(tl[3] - pl[3])
    + (IF penalty THEN ChromaPenalty(tl, pl, weight) ELSE 0)

\* palette.map(c => Array.isArray(c) ? c : [c.r, c.g, c.b])
NormPalette(palette) == [i \in 1..Len(palette) |-> palette[i].rgb]

\* The score of palette colour p against target t; labs = <<target LAB, entry LAB>>
\* on the LAB path
Score(t, p, algorithm, penalty, weight, labs) ==
    IF algorithm = "rgb" THEN DistRgb(t, p)
    ELSE IF algorithm = "hsv" THEN DistHsv(t, p)
    ELSE IF algorithm = "oklab" THEN DistOklab(t, p)
    ELSE DistLab(labs[1], labs[2], penalty, weight)

\* On the LAB path, _getLab of the target and then of entry p: <<target LAB, entry
\* LAB, cache afterwards>>; the other paths leave the cache alone
ReadLabs(cache, t, p, algorithm) ==
    IF algorithm \in {"rgb", "hsv", "oklab"} THEN <<<<0, 0, 0>>, <<0, 0, 0>>, cache>>
    ELSE Only({ Only({ <<tl.lab, pl.lab, pl.cache>> :
                       pl \in {GetLab(tl.cache, ToFP(p))} }) :
                tl \in {GetLab(cache, t)} })

\* if (dist < bestDist) { bestDist = dist; best = [pr, pg, pb]; }
KeepBest(acc, p, dist, cache) ==
    IF dist < acc.dist
    THEN [rgb |-> p, dist |-> dist, cache |-> cache]
    ELSE [rgb |-> acc.rgb, dist |-> acc.dist, cache |-> cache]

\* One iteration of a palette loop of findClosestPaletteColor on entry p:
\* acc = [rgb, dist, cache] holds best, bestDist and this._labCache
ScanStep(t, p, algorithm, penalty, weight, acc) ==
    Only({ Only({ KeepBest(acc, p, dist, labs[3]) :
                  dist \in {Score(t, p, algorithm, penalty, weight, labs)} }) :
           labs \in {ReadLabs(acc.cache, t, p, algorithm)} })

RECURSIVE ScanPalette(_, _, _, _, _, _, _)
\* for (const [pr, pg, pb] of normPalette) { ... if (dist < bestDist) ... }:
\* no early exit, the first strictly lower score wins
ScanPalette(t, np, algorithm, penalty, weight, i, acc) ==
    IF i > Len(np) THEN acc
    ELSE Only({ ScanPalette(t, np, algorithm, penalty, weight, i + 1, next) :
                next \in {ScanStep(t, np[i], algorithm, penalty, weight, acc)} })

\* findClosestPaletteColor(r, g, b, palette, algorithm, options): t = <<r,g,b>> in
\* fixed point.  A null or undefined palette takes the branch of the empty one.
\* Returns [rgb, dist, cache]: the colour returned, its score and this._labCache
\* afterwards (the LAB path reads the target through _getLab before the loop).
FindClosestPaletteColor(cache, t, palette, algorithm, penalty, weight) ==
    IF Len(palette) = 0 THEN [rgb |-> <<0, 0, 0>>, dist |-> Infinity, cache |-> cache]
    ELSE ScanPalette(t, NormPalette(palette), algorithm, penalty, weight, 1,
                     [rgb |-> <<0, 0, 0>>, dist |-> Infinity, cache |-> cache])

-----------------------------------------------------------------------------
(* Colour matching: resolveColor *)

\* new Map(), and a Map after clear()
EmptyMap == [k \in {} |-> 0]

\* id: null in the sentinel { id: null, rgb: targetRgb }
NullId == -1

\* this.WHITE_THRESHOLD
WHITE_THRESHOLD == 230

\* this.TRANSPARENCY_THRESHOLD
TRANSPARENCY_THRESHOLD == 128

\* if (this._colorCache.size > 20000) this._colorCache.clear(): the cap, scaled
\* down from 20000 so that a handful of calls reaches it
ColorCacheLimit == 2

\* chromaPenaltyWeight = 0.15, in 1/100
DefaultChromaPenaltyWeight == 15

\* isWhitePixel(r, g, b, threshold)
IsWhitePixel(rgb, threshold) ==
    rgb[1] >= threshold /\ rgb[2] >= threshold /\ rgb[3] >= threshold

\* availableColors.find(c => c.rgb equals targetRgb): the index found, 0 when none
FindExact(avail, target) ==
    IF \E i \in 1..Len(avail) : avail[i].rgb = target
    THEN CHOOSE i \in 1..Len(avail) :
             /\ avail[i].rgb = target
             /\ \A j \in 1..(i - 1) : avail[j].rgb # target
    ELSE 0

\* availableColors.find(c => every channel of c.rgb >= whiteThreshold), likewise
FindWhite(avail, whiteThreshold) ==
    IF \E i \in 1..Len(avail) : IsWhitePixel(avail[i].rgb, whiteThreshold)
    THEN CHOOSE i \in 1..Len(avail) :
             /\ IsWhitePixel(avail[i].rgb, whiteThreshold)
             /\ \A j \in 1..(i - 1) : ~IsWhitePixel(avail[j].rgb, whiteThreshold)
    ELSE 0

\* `${r},${g},${b}|${algorithm}|${c|nc}|${chromaPenaltyWeight}|${exact|closest}`
CacheKey(target, algorithm, penalty, weight, exactMatch) ==
    <<target, algorithm, penalty, weight, exactMatch>>

\* if (dist < bestScore) { bestScore = dist; bestId = c.id; bestRgb = [...c.rgb];
\* if (dist === 0) break; }
KeepBestId(acc, c, dist, cache) ==
    IF dist < acc.score
    THEN [id |-> c.id, rgb |-> c.rgb, score |-> dist, cache |-> cache, done |-> dist = 0]
    ELSE [id |-> acc.id, rgb |-> acc.rgb, score |-> acc.score, cache |-> cache,
          done |-> FALSE]

\* One iteration of a nearest-colour loop of resolveColor on entry c:
\* acc = [id, rgb, score, cache, done]; pw is penaltyWeight
ResolveStep(target, c, algorithm, pw, acc) ==
    Only({ Only({ KeepBestId(acc, c, dist, labs[3]) :
                  dist \in {Score(ToFP(target), c.rgb,
                                  IF algorithm = "legacy" THEN "rgb" ELSE "lab",
                                  pw > 0, pw, labs)} }) :
           labs \in {ReadLabs(acc.cache, ToFP(target), c.rgb,
                              IF algorithm = "legacy" THEN "rgb" ELSE "lab")} })

RECURSIVE ResolveScan(_, _, _, _, _, _)
\* the nearest-colour loops of resolveColor; both break at the first score 0
ResolveScan(target, avail, algorithm, pw, i, acc) ==
    IF i > Len(avail) \/ acc.done THEN acc
    ELSE Only({ ResolveScan(target, avail, algorithm, pw, i + 1, next) :
                next \in {ResolveStep(target, avail[i], algorithm, pw, acc)} })

\* resolveColor(targetRgb, availableColors, options).  A null or undefined
\* availableColors takes the branch of the empty one.  Returns
\* [result, colorCache, labCache]: the value returned and both caches afterwards.
ResolveColor(cc, lc, target, avail, exactMatch, algorithm, penalty, weight, whiteThreshold) ==
    LET key == CacheKey(target, algorithm, penalty, weight, exactMatch)
        exactIdx == FindExact(avail, target)
        whiteIdx == FindWhite(avail, whiteThreshold)
        scan == ResolveScan(target, avail, algorithm, IF penalty THEN weight ELSE 0, 1,
                            [id |-> avail[1].id, rgb |-> avail[1].rgb, score |-> Infinity,
                             cache |-> lc, done |-> FALSE])
        stored == cc @@ (key :> [id |-> scan.id, rgb |-> scan.rgb])
    IN IF Len(avail) = 0
       THEN [result |-> [id |-> NullId, rgb |-> target], colorCache |-> cc, labCache |-> lc]
       ELSE IF key \in DOMAIN cc
       THEN [result |-> cc[key], colorCache |-> cc, labCache |-> lc]
       ELSE IF exactMatch
       THEN LET result == IF exactIdx # 0
                          THEN [id |-> avail[exactIdx].id, rgb |-> avail[exactIdx].rgb]
                          ELSE [id |-> NullId, rgb |-> target]
            IN [result |-> result, colorCache |-> cc @@ (key :> result), labCache |-> lc]
       ELSE IF IsWhitePixel(target, whiteThreshold) /\ whiteIdx # 0
       THEN LET result == [id |-> avail[whiteIdx].id, rgb |-> avail[whiteIdx].rgb]
            IN [result |-> result, colorCache |-> cc @@ (key :> result), labCache |-> lc]
       ELSE [result |-> [id |-> scan.id, rgb |-> scan.rgb],
             colorCache |-> IF Cardinality(DOMAIN stored) > ColorCacheLimit
                            THEN EmptyMap ELSE stored,
             labCache |-> scan.cache]

-----------------------------------------------------------------------------
(* Resampling                                                               *)
(*                                                                         *)
(* A canvas is [width, height, data], data the RGBA pixels row by row as    *)
(* getImageData reads them; drawImage(source, 0, 0) copies them unchanged.  *)

\* IsIntegerFactor that takes every factor for an integer
IsIntegerFactorAlways(srcW, dstW) == TRUE

\* Math.abs(factor - Math.round(factor)) < 1e-6 for factor = srcW / dstW
IsIntegerFactor(srcW, dstW) ==
    Abs(srcW - RoundDiv(srcW, dstW) * dstW) * 1000000 < dstW

\* Math.max(1, Math.round(factor))
IntFactor(srcW, dstW) == Max2(1, RoundDiv(srcW, dstW))

\* drawImage(source, 0, 0, dstW, dstH) without smoothing: each destination pixel
\* takes the source pixel under its centre
ResampleNearest(source, dstW, dstH) ==
    [width |-> dstW, height |-> dstH,
     data |-> [q \in 1..(dstW * dstH) |->
                 source.data[
                     Min2(source.height - 1,
                          ((2 * ((q - 1) \div dstW) + 1) * source.height) \div (2 * dstH))
                         * source.width
                     + Min2(source.width - 1,
                            ((2 * ((q - 1) % dstW) + 1) * source.width) \div (2 * dstW))
                     + 1]]]

\* The position of destination centre i on a source axis of n pixels, in units of
\* 1 / (2 * m) source pixels from the first source centre, kept inside the axis
AxisPosition(i, n, m) == Min2(2 * m * (n - 1), Max2(0, (2 * i + 1) * n - m))

\* One channel interpolated between the four source pixels around (px, py);
\* px in 1 / (2 * dstW), py in 1 / (2 * dstH)
Interpolate(source, c, px, py, dstW, dstH) ==
    Only({ RoundDiv(
             (2 * dstH - (py % (2 * dstH)))
                 * ( (2 * dstW - (px % (2 * dstW))) * source.data[at[1] * source.width + at[2] + 1][c]
                   + (px % (2 * dstW)) * source.data[at[1] * source.width + at[4] + 1][c] )
             + (py % (2 * dstH))
                 * ( (2 * dstW - (px % (2 * dstW))) * source.data[at[3] * source.width + at[2] + 1][c]
                   + (px % (2 * dstW)) * source.data[at[3] * source.width + at[4] + 1][c] ),
             4 * dstW * dstH) :
           at \in {<<py \div (2 * dstH), px \div (2 * dstW),
                    Min2(source.height - 1, py \div (2 * dstH) + 1),
                    Min2(source.width - 1, px \div (2 * dstW) + 1)>>} })

\* drawImage(source, 0, 0, dstW, dstH) with smoothing: bilinear interpolation
\* between source pixel centres
ResampleBilinear(source, dstW, dstH) ==
    [width |-> dstW, height |-> dstH,
     data |-> [q \in 1..(dstW * dstH) |->
                 [c \in 1..4 |->
                    Interpolate(source, c,
                                AxisPosition((q - 1) % dstW, source.width, dstW),
                                AxisPosition((q - 1) \div dstW, source.height, dstH),
                                dstW, dstH)]]]

\* <<sx0, sx1, sy0, sy1>> of destination pixel (x, y)
BlockBounds(source, x, y, factor) ==
    <<x * factor, Min2(source.width, x * factor + factor),
      y * factor, Min2(source.height, y * factor + factor)>>

\* The source pixels the two inner loops visit for the block b, in visiting order
BlockPixels(source, b) ==
    IF b[2] <= b[1] \/ b[4] <= b[3] THEN <<>>
    ELSE [k \in 1..((b[2] - b[1]) * (b[4] - b[3])) |->
            source.data[(b[3] + (k - 1) \div (b[2] - b[1])) * source.width
                        + b[1] + ((k - 1) % (b[2] - b[1])) + 1]]

RECURSIVE ChannelSum(_, _, _)
\* r += srcData[p] over the first k pixels of the block
ChannelSum(block, c, k) ==
    IF k = 0 THEN 0 ELSE block[k][c] + ChannelSum(block, c, k - 1)

\* dstData[q] = Math.round(sum / cnt): 0 / 0 is NaN, which the Uint8ClampedArray
\* stores as 0
BoxAverage(sum, cnt) ==
    IF cnt = 0 THEN 0 ELSE Min2(255, Max2(0, RoundDiv(sum, cnt)))

\* One destination pixel of resampleBox
BoxPixel(block) ==
    [c \in 1..4 |-> BoxAverage(ChannelSum(block, c, Len(block)), Len(block))]

\* resampleBox(source, dstW, dstH, factor)
ResampleBox(source, dstW, dstH, factor) ==
    [width |-> dstW, height |-> dstH,
     data |-> [q \in 1..(dstW * dstH) |->
                 BoxPixel(BlockPixels(source,
                                      BlockBounds(source, (q - 1) % dstW,
                                                  (q - 1) \div dstW, factor)))]]

\* acc after bin i of medianFrom: the pixels of the block whose channel c falls
\* in bins 0 .. i
BinsUpTo(block, c, i) == Cardinality({ k \in 1..Len(block) : block[k][c] \div 16 <= i })

\* medianFrom(hist): binToByte of the first bin whose running count exceeds half,
\* binToByte(15) when none does
MedianFrom(block, c, half) ==
    IF \E i \in 0..15 : BinsUpTo(block, c, i) > half
    THEN 17 * (CHOOSE i \in 0..15 :
                  /\ BinsUpTo(block, c, i) > half
                  /\ \A j \in 0..(i - 1) : BinsUpTo(block, c, j) <= half)
    ELSE 17 * 15

\* One destination pixel of resampleMedian; half = ((sx1 - sx0) * (sy1 - sy0)) >> 1
MedianPixel(block, b) ==
    [c \in 1..4 |-> MedianFrom(block, c, ((b[2] - b[1]) * (b[4] - b[3])) \div 2)]

\* resampleMedian(source, dstW, dstH, factor)
ResampleMedian(source, dstW, dstH, factor) ==
    [width |-> dstW, height |-> dstH,
     data |-> [q \in 1..(dstW * dstH) |->
                 Only({ MedianPixel(BlockPixels(source, b), b) :
                        b \in {BlockBounds(source, (q - 1) % dstW,
                                           (q - 1) \div dstW, factor)} })]]

\* idx = (r << 8) | (g << 4) | b for r, g, b the channels >> 4
BucketIndex(px) == (px[1] \div 16) * 256 + (px[2] \div 16) * 16 + px[3] \div 16

\* BucketColor that decodes a bin to its lowest byte
BucketColorFloor(idx) ==
    <<((idx \div 256) % 16) * 16, ((idx \div 16) % 16) * 16, (idx % 16) * 16>>

\* ((bestIdx >> 8) & 0xF) * 17, ((bestIdx >> 4) & 0xF) * 17, (bestIdx & 0xF) * 17
BucketColor(idx) ==
    <<((idx \div 256) % 16) * 17, ((idx \div 16) % 16) * 17, (idx % 16) * 17>>

\* counts[idx] after the increment at pixel k of the block
CountAt(block, k) ==
    Cardinality({ j \in 1..k : BucketIndex(block[j]) = BucketIndex(block[k]) })

RECURSIVE DominantScan(_, _, _)
\* c = ++counts[idx]; if (c > bestCount) { bestCount = c; bestIdx = idx; }
\* over the pixels k .. of the block; best = [idx, count]
DominantScan(block, k, best) ==
    IF k > Len(block) THEN best
    ELSE DominantScan(block, k + 1,
                      IF CountAt(block, k) > best.count
                      THEN [idx |-> BucketIndex(block[k]), count |-> CountAt(block, k)]
                      ELSE best)

\* One destination pixel of resampleDominant: bestIdx = 0, bestCount = -1 at first
DominantPixel(block) ==
    Only({ <<rgb[1], rgb[2], rgb[3], 255>> :
           rgb \in {BucketColor(DominantScan(block, 1, [idx |-> 0, count |-> -1]).idx)} })

\* resampleDominant(source, dstW, dstH, factor)
ResampleDominant(source, dstW, dstH, factor) ==
    [width |-> dstW, height |-> dstH,
     data |-> [q \in 1..(dstW * dstH) |->
                 DominantPixel(BlockPixels(source,
                                           BlockBounds(source, (q - 1) % dstW,
                                                       (q - 1) \div dstW, factor)))]]

\* The switch of resampleImage for an integer factor
ResampleByMethod(source, dstW, dstH, method, factor) ==
    IF method = "bilinear" THEN ResampleBilinear(source, dstW, dstH)
    ELSE IF method = "box" THEN ResampleBox(source, dstW, dstH, factor)
    ELSE IF method = "median" THEN ResampleMedian(source, dstW, dstH, factor)
    ELSE IF method = "dominant" THEN ResampleDominant(source, dstW, dstH, factor)
    ELSE ResampleNearest(source, dstW, dstH)

\* resampleImage(source, dstW, dstH, method)
ResampleImage(source, dstW, dstH, method) ==
    IF ~IsIntegerFactor(source.width, dstW)
    THEN IF method = "bilinear" THEN ResampleBilinear(source, dstW, dstH)
         ELSE ResampleNearest(source, dstW, dstH)
    ELSE ResampleByMethod(source, dstW, dstH, method, IntFactor(source.width, dstW))

-----------------------------------------------------------------------------
(* Quantization and dithering                                               *)
(*                                                                         *)
(* A pixel is <<r, g, b, a>>; imageData is the sequence of the pixels row   *)
(* by row.  The options record o holds the destructured options.  Every     *)
(* quantizer works on acc = [data, totalValid, cache, work]: its copy of    *)
(* the pixels, its counter, this._labCache and the Float32 work buffer      *)
(* (fixed point, used by error diffusion only).                             *)

Rgb(px) == <<px[1], px[2], px[3]>>

\* isEligible of the three quantizers
IsEligible(px, o) ==
    /\ (o.paintTransparentPixels \/ px[4] >= o.transparencyThreshold)
    /\ (o.paintWhitePixels \/ ~IsWhitePixel(Rgb(px), o.whiteThreshold))

\* SkipPixel that forgets to clear the alpha byte
SkipPixelKeepAlpha(acc, i) == acc

\* if (!isEligible) data[i + 3] = 0
SkipPixel(acc, i) == [acc EXCEPT !.data[i][4] = 0]

\* ClearPixel that forgets to count the pixel
ClearPixelUncounted(acc, i) == [acc EXCEPT !.data[i] = <<0, 0, 0, 0>>]

\* data[i] = data[i+1] = data[i+2] = data[i+3] = 0; totalValid++
ClearPixel(acc, i) ==
    [acc EXCEPT !.data[i] = <<0, 0, 0, 0>>, !.totalValid = @ + 1]

\* data[i] = nr; data[i+1] = ng; data[i+2] = nb; data[i+3] = 255; totalValid++,
\* m the [rgb, dist, cache] of findClosestPaletteColor
PaintPixel(acc, i, m) ==
    [acc EXCEPT !.data[i] = <<m.rgb[1], m.rgb[2], m.rgb[3], 255>>,
                !.totalValid = @ + 1,
                !.cache = m.cache]

\* this.findClosestPaletteColor(r, g, b, palette, algorithm,
\*                              { enableChromaPenalty, chromaPenaltyWeight })
MatchPixel(cache, t, palette, o) ==
    FindClosestPaletteColor(cache, t, palette, o.algorithm, o.enableChromaPenalty,
                            o.chromaPenaltyWeight)

\* The loop body of applySimpleQuantization on pixel i
SimpleStep(acc, i, palette, o) ==
    IF ~IsEligible(acc.data[i], o) THEN SkipPixel(acc, i)
    ELSE IF o.paintTransparentPixels /\ acc.data[i][4] < o.transparencyThreshold
    THEN ClearPixel(acc, i)
    ELSE Only({ PaintPixel(acc, i, m) :
                m \in {MatchPixel(acc.cache, ToFP(Rgb(acc.data[i])), palette, o)} })

RECURSIVE SimpleLoop(_, _, _, _)
\* for (let i = 0; i < data.length; i += 4)
SimpleLoop(acc, i, palette, o) ==
    IF i > Len(acc.data) THEN acc
    ELSE Only({ SimpleLoop(next, i + 1, palette, o) :
                next \in {SimpleStep(acc, i, palette, o)} })

\* applySimpleQuantization(imageData, width, height, palette, options)
ApplySimpleQuantization(cache, imageData, palette, o) ==
    SimpleLoop([data |-> imageData, totalValid |-> 0, cache |-> cache, work |-> <<>>],
               1, palette, o)

\* A kernel that also sends error to the pixel on the left
DitherKernelBackward(method) ==
    [divisor |-> 16,
     offsets |-> << <<1, 0, 7>>, <<-1, 0, 3>>, <<0, 1, 5>>, <<1, 1, 1>> >>]

\* _getDitherKernel(method): offsets are <<dx, dy, weight>>
DitherKernel(method) ==
    IF method = "atkinson"
    THEN [divisor |-> 8,
          offsets |-> << <<1, 0, 1>>, <<2, 0, 1>>, <<-1, 1, 1>>, <<0, 1, 1>>,
                         <<1, 1, 1>>, <<0, 2, 1>> >>]
    ELSE IF method = "jarvis"
    THEN [divisor |-> 48,
          offsets |-> << <<1, 0, 7>>, <<2, 0, 5>>, <<-2, 1, 3>>, <<-1, 1, 5>>,
                         <<0, 1, 7>>, <<1, 1, 5>>, <<2, 1, 3>>, <<-2, 2, 1>>,
                         <<-1, 2, 3>>, <<0, 2, 5>>, <<1, 2, 3>>, <<2, 2, 1>> >>]
    ELSE IF method = "stucki"
    THEN [divisor |-> 42,
          offsets |-> << <<1, 0, 8>>, <<2, 0, 4>>, <<-2, 1, 2>>, <<-1, 1, 4>>,
                         <<0, 1, 8>>, <<1, 1, 4>>, <<2, 1, 2>>, <<-2, 2, 1>>,
                         <<-1, 2, 2>>, <<0, 2, 4>>, <<1, 2, 2>>, <<2, 2, 1>> >>]
    ELSE IF method = "burkes"
    THEN [divisor |-> 32,
          offsets |-> << <<1, 0, 8>>, <<2, 0, 4>>, <<-2, 1, 2>>, <<-1, 1, 4>>,
                         <<0, 1, 8>>, <<1, 1, 4>>, <<2, 1, 2>> >>]
    ELSE IF method = "sierra"
    THEN [divisor |-> 32,
          offsets |-> << <<1, 0, 5>>, <<2, 0, 3>>, <<-2, 1, 2>>, <<-1, 1, 4>>,
                         <<0, 1, 5>>, <<1, 1, 4>>, <<2, 1, 2>>, <<-1, 2, 2>>,
                         <<0, 2, 3>>, <<1, 2, 2>> >>]
    ELSE [divisor |-> 16,
          offsets |-> << <<1, 0, 7>>, <<-1, 1, 3>>, <<0, 1, 5>>, <<1, 1, 1>> >>]

\* DiffuseInto that loses the error
DiffuseNothing(w, err, weight, divisor) == w

\* Math.min(255, Math.max(0, work[base + c] + e * factor)) for the three channels,
\* factor = weight / divisor, in fixed point
DiffuseInto(w, err, weight, divisor) ==
    [c \in 1..3 |-> Min2(255 * FP, Max2(0, w[c] + TruncDiv(err[c] * weight, divisor)))]

\* Diffuse without the test of eligible[nidx]
DiffuseIntoIneligible(work, d, nx, ny, err, weight, divisor) ==
    IF nx < 0 \/ nx >= d.width \/ ny < 0 \/ ny >= d.height THEN work
    ELSE [work EXCEPT ![ny * d.width + nx + 1] = DiffuseInto(@, err, weight, divisor)]

\* diffuse(nx, ny, er, eg, eb, factor); d holds width, height and eligible
Diffuse(work, d, nx, ny, err, weight, divisor) ==
    IF nx < 0 \/ nx >= d.width \/ ny < 0 \/ ny >= d.height THEN work
    ELSE IF ~d.eligible[ny * d.width + nx + 1] THEN work
    ELSE [work EXCEPT ![ny * d.width + nx + 1] = DiffuseInto(@, err, weight, divisor)]

RECURSIVE DiffuseLoop(_, _, _, _, _, _, _)
\* for (const { dx, dy, weight } of kernel.offsets) diffuse(x + dx, y + dy, ...)
DiffuseLoop(work, d, x, y, err, kernel, k) ==
    IF k > Len(kernel.offsets) THEN work
    ELSE Only({ DiffuseLoop(next, d, x, y, err, kernel, k + 1) :
                next \in {Diffuse(work, d, x + kernel.offsets[k][1],
                                  y + kernel.offsets[k][2], err, kernel.offsets[k][3],
                                  kernel.divisor)} })

\* er = r0 - nr, eg = g0 - ng, eb = b0 - nb in fixed point
QuantError(t, rgb) == [c \in 1..3 |-> t[c] - rgb[c] * FP]

\* The second loop body of _applyErrorDiffusion on pixel idx (1-based);
\* d holds width, height, eligible and kernel
ErrorStep(acc, idx, palette, o, d) ==
    IF ~d.eligible[idx] THEN acc
    ELSE IF o.paintTransparentPixels /\ acc.data[idx][4] < o.transparencyThreshold
    THEN ClearPixel(acc, idx)
    ELSE Only({ [PaintPixel(acc, idx, m) EXCEPT
                   !.work = DiffuseLoop(@, d, (idx - 1) % d.width, (idx - 1) \div d.width,
                                        QuantError(acc.work[idx], m.rgb), d.kernel, 1)] :
                m \in {MatchPixel(acc.cache, acc.work[idx], palette, o)} })

RECURSIVE ErrorLoop(_, _, _, _, _)
\* for y, for x: idx = y * width + x, in increasing order
ErrorLoop(acc, idx, palette, o, d) ==
    IF idx > d.width * d.height THEN acc
    ELSE Only({ ErrorLoop(next, idx + 1, palette, o, d) :
                next \in {ErrorStep(acc, idx, palette, o, d)} })

\* The first loop of _applyErrorDiffusion: eligible[], work[] and the alpha of the
\* ineligible pixels
ErrorInit(cache, imageData, o) ==
    [data |-> [i \in 1..Len(imageData) |->
                 IF IsEligible(imageData[i], o) THEN imageData[i]
                 ELSE SkipPixel([data |-> imageData], i).data[i]],
     totalValid |-> 0,
     cache |-> cache,
     work |-> [i \in 1..Len(imageData) |-> ToFP(Rgb(imageData[i]))]]

\* _applyErrorDiffusion(imageData, width, height, palette, method, options)
ApplyErrorDiffusion(cache, imageData, width, height, palette, method, o) ==
    ErrorLoop(ErrorInit(cache, imageData, o), 1, palette, o,
              [width |-> width, height |-> height,
               eligible |-> [i \in 1..Len(imageData) |-> IsEligible(imageData[i], o)],
               kernel |-> DitherKernel(method)])

\* _getBayerMatrix(method): the numerators of the entries; <<>> is null
BayerMatrix(method) ==
    IF method = "bayer2" THEN << <<0, 2>>, <<3, 1>> >>
    ELSE IF method = "bayer4"
    THEN << <<0, 8, 2, 10>>, <<12, 4, 14, 6>>, <<3, 11, 1, 9>>, <<15, 7, 13, 5>> >>
    ELSE IF method = "bayer8"
    THEN << <<0, 32, 8, 40, 2, 34, 10, 42>>, <<48, 16, 56, 24, 50, 18, 58, 26>>,
            <<12, 44, 4, 36, 14, 46, 6, 38>>, <<60, 28, 52, 20, 62, 30, 54, 22>>,
            <<3, 35, 11, 43, 1, 33, 9, 41>>, <<51, 19, 59, 27, 49, 17, 57, 25>>,
            <<15, 47, 7, 39, 13, 45, 5, 37>>, <<63, 31, 55, 23, 61, 29, 53, 21>> >>
    ELSE <<>>

\* threshold in 1/64: Math.random() (the draw rnd) or matrix[y % size][x % size]
DitherThreshold(method, x, y, rnd) ==
    IF method = "random" THEN rnd
    ELSE Only({ matrix[(y % Len(matrix)) + 1][(x % Len(matrix)) + 1]
                    * (64 \div (Len(matrix) * Len(matrix))) :
                matrix \in {BayerMatrix(method)} })

\* AddNoise with eight times the amplitude
AddNoiseWide(rgb, threshold, strength) ==
    [c \in 1..3 |->
        Max2(0, Min2(255 * FP,
                     rgb[c] * FP + TruncDiv((threshold - 32) * 8 * strength * FP, 100)))]

\* AddNoise that takes every strength for 1.0
AddNoiseFullStrength(rgb, threshold, strength) ==
    [c \in 1..3 |->
        Max2(0, Min2(255 * FP, rgb[c] * FP + (threshold - 32) * FP))]

\* Math.max(0, Math.min(255, c + noise)), noise = (threshold - 0.5) * 64 * strength,
\* strength in 1/100, the result in fixed point
AddNoise(rgb, threshold, strength) ==
    [c \in 1..3 |->
        Max2(0, Min2(255 * FP,
                     rgb[c] * FP + TruncDiv((threshold - 32) * strength * FP, 100)))]

\* The loop body of _applyOrderedDither on pixel idx (1-based); d holds width,
\* method, strength and the draws of Math.random()
OrderedStep(acc, idx, palette, o, d) ==
    IF ~IsEligible(acc.data[idx], o) THEN SkipPixel(acc, idx)
    ELSE IF o.paintTransparentPixels /\ acc.data[idx][4] < o.transparencyThreshold
    THEN ClearPixel(acc, idx)
    ELSE Only({ PaintPixel(acc, idx, m) :
                m \in {MatchPixel(acc.cache,
                                  AddNoise(Rgb(acc.data[idx]),
                                           DitherThreshold(d.method, (idx - 1) % d.width,
                                                           (idx - 1) \div d.width,
                                                           d.random[idx]),
                                           d.strength),
                                  palette, o)} })

RECURSIVE OrderedLoop(_, _, _, _, _)
\* for y, for x: i = (y * width + x) * 4, in increasing order
OrderedLoop(acc, idx, palette, o, d) ==
    IF idx > d.width * d.height THEN acc
    ELSE Only({ OrderedLoop(next, idx + 1, palette, o, d) :
                next \in {OrderedStep(acc, idx, palette, o, d)} })

\* _applyOrderedDither(imageData, width, height, palette, method, strength, options)
ApplyOrderedDither(cache, imageData, width, height, palette, method, strength, o, random) ==
    OrderedLoop([data |-> imageData, totalValid |-> 0, cache |-> cache, work |-> <<>>],
                1, palette, o,
                [width |-> width, height |-> height, method |-> method,
                 strength |-> strength, random |-> random])

\* _ensureDitherBuffers(n), which only _applyErrorDiffusion calls: the buffers are
\* reallocated for n pixels unless they already have that size
EnsureDitherBuffers(buffers, method, n) ==
    IF method \in {"bayer2", "bayer4", "bayer8", "random"} THEN buffers ELSE n

\* applyDithering(imageData, width, height, palette, options): an unknown method
\* warns and runs floyd
ApplyDithering(cache, imageData, width, height, palette, method, strength, o, random) ==
    IF method \in {"floyd", "atkinson", "jarvis", "stucki", "burkes", "sierra"}
    THEN ApplyErrorDiffusion(cache, imageData, width, height, palette, method, o)
    ELSE IF method \in {"bayer2", "bayer4", "bayer8", "random"}
    THEN ApplyOrderedDither(cache, imageData, width, height, palette, method, strength,
                            o, random)
    ELSE ApplyErrorDiffusion(cache, imageData, width, height, palette, "floyd", o)

-----------------------------------------------------------------------------
(* Region simplification                                                    *)
(*                                                                         *)
(* Pixels are numbered 1 .. width * height row by row.  A flood works on    *)
(* st = [visited, queue, qs, border]: the visited flags, the pixels queued   *)
(* so far (qx, qy), the number already taken off and borderColors.          *)

\* ((r << 16) | (g << 8) | b) >>> 0
ColorKey(px) == px[1] * 65536 + px[2] * 256 + px[3]

\* [(bestKey >>> 16) & 255, (bestKey >>> 8) & 255, bestKey & 255, 255]
KeyPixel(key) == <<(key \div 65536) % 256, (key \div 256) % 256, key % 256, 255>>

\* neighbors = [[1, 0], [-1, 0], [0, 1], [0, -1]]
Neighbors == << <<1, 0>>, <<-1, 0>>, <<0, 1>>, <<0, -1>> >>

\* borderColors[k2] = (borderColors[k2] || 0) + 1
CountBorder(border, k2) ==
    IF k2 \in DOMAIN border THEN [border EXCEPT ![k2] = @ + 1] ELSE border @@ (k2 :> 1)

\* The body of the neighbour loop for the in-range neighbour l2 of a pixel of the
\* component of colour key
VisitNeighbor(st, data, key, l2) ==
    IF st.visited[l2] THEN st
    ELSE IF data[l2][4] < 128 THEN [st EXCEPT !.visited[l2] = TRUE]
    ELSE IF ColorKey(data[l2]) = key
    THEN [st EXCEPT !.visited[l2] = TRUE, !.queue = Append(@, l2)]
    ELSE [st EXCEPT !.border = CountBorder(@, ColorKey(data[l2]))]

RECURSIVE NeighborLoop(_, _, _, _, _, _, _)
\* for (let k = 0; k < 4; k++) around pixel (cx, cy); d = <<width, height>>
NeighborLoop(st, data, d, key, cx, cy, k) ==
    IF k > 4 THEN st
    ELSE IF \/ cx + Neighbors[k][1] < 0 \/ cy + Neighbors[k][2] < 0
            \/ cx + Neighbors[k][1] >= d[1] \/ cy + Neighbors[k][2] >= d[2]
    THEN NeighborLoop(st, data, d, key, cx, cy, k + 1)
    ELSE Only({ NeighborLoop(next, data, d, key, cx, cy, k + 1) :
                next \in {VisitNeighbor(st, data, key,
                                        (cy + Neighbors[k][2]) * d[1]
                                            + cx + Neighbors[k][1] + 1)} })

RECURSIVE Flood(_, _, _, _)
\* while (qs < qe): take the next queued pixel and look at its four neighbours
Flood(st, data, d, key) ==
    IF st.qs >= Len(st.queue) THEN st
    ELSE Only({ Flood(next, data, d, key) :
                next \in {NeighborLoop([st EXCEPT !.qs = @ + 1], data, d, key,
                                       (st.queue[st.qs + 1] - 1) % d[1],
                                       (st.queue[st.qs + 1] - 1) \div d[1], 1)} })

\* The for-in loop over borderColors: integer keys come in ascending order and
\* only a larger count replaces the best, so the smallest key of the largest
\* count wins; -1 when there is no border colour
BestBorderKey(border) ==
    IF DOMAIN border = {} THEN -1
    ELSE CHOOSE k \in DOMAIN border :
            \A j \in DOMAIN border :
                border[j] < border[k] \/ (border[j] = border[k] /\ j >= k)

\* if (comp.length > 0 && comp.length < thr) { ... if (bestKey >= 0) repaint }
Repaint(data, comp, border, thr) ==
    IF Len(comp) > 0 /\ Len(comp) < thr /\ BestBorderKey(border) >= 0
    THEN [i \in 1..Len(data) |->
            IF \E n \in 1..Len(comp) : comp[n] = i
            THEN KeyPixel(BestBorderKey(border)) ELSE data[i]]
    ELSE data

\* The body of the scan loops for pixel li; acc = [result, visited]
RegionStep(acc, li, d, thr) ==
    IF acc.visited[li] THEN acc
    ELSE IF acc.result[li][4] < 128 THEN [acc EXCEPT !.visited[li] = TRUE]
    ELSE Only({ [result |-> Repaint(acc.result, st.queue, st.border, thr),
                 visited |-> st.visited] :
                st \in {Flood([visited |-> [acc.visited EXCEPT ![li] = TRUE],
                               queue |-> <<li>>, qs |-> 0, border |-> EmptyMap],
                              acc.result, d, ColorKey(acc.result[li]))} })

RECURSIVE RegionLoop(_, _, _, _)
\* for y, for x: li = y * width + x, in increasing order
RegionLoop(acc, li, d, thr) ==
    IF li > d[1] * d[2] THEN acc
    ELSE Only({ RegionLoop(next, li + 1, d, thr) :
                next \in {RegionStep(acc, li, d, thr)} })

\* simplifyRegions(imageData, width, height, minArea), minArea in halves:
\* thr = Math.max(1, Math.floor(minArea || 0))
SimplifyRegions(imageData, width, height, minArea) ==
    IF minArea <= 0 THEN imageData
    ELSE IF width = 0 \/ height = 0 THEN imageData
    ELSE RegionLoop([result |-> imageData,
                     visited |-> [i \in 1..(width * height) |-> FALSE]],
                    1, <<width, height>>, Max2(1, minArea \div 2)).result

-----------------------------------------------------------------------------
(* The processor as a state machine *)

\* No invocation yet: the processor as the constructor leaves it
NoCall == [op |-> "none"]

\* this.canvas = null
NoCanvas == [width |-> 0, height |-> 0, data |-> <<>>]

\* throw new Error(message), as the caller sees it
Thrown(message) == [error |-> message]

\* return; and the value of a call that returns nothing
Undefined == [returned |-> "undefined"]

\* No pipeline function is running
Idle == [pc |-> "idle"]

\* constructor(): no canvas, empty caches, no dither buffers
Init ==
    /\ canvas = NoCanvas
    /\ colorCache = EmptyMap
    /\ labCache = EmptyMap
    /\ ditherBuffers = 0
    /\ pipeline = Idle
    /\ call = NoCall
    /\ ret = <<>>

\* clearCaches()
ClearCaches ==
    /\ colorCache' = EmptyMap
    /\ labCache' = EmptyMap
    /\ ditherBuffers' = 0

\* loadFromBitmap(bitmap): the canvas takes the bitmap's size and pixels, the
\* caches are cleared
LoadFromBitmap(bitmap) ==
    /\ canvas' = bitmap
    /\ ClearCaches

-----------------------------------------------------------------------------
(* Palette matching on a fresh processor: one matcher call per behaviour *)

\* Longest palette handed to the matcher
MaxPaletteLen == 3

White == <<255, 255, 255>>
Black == <<0, 0, 0>>
Red == <<200, 30, 30>>
Gray == <<100, 100, 100>>

\* Palette entries {id, rgb}: an exact white, two near-whites, a vivid and a dull red
MatchEntries ==
    { [id |-> 5, rgb |-> White],
      [id |-> 7, rgb |-> <<240, 240, 240>>],
      [id |-> 8, rgb |-> <<235, 250, 245>>],
      [id |-> 1, rgb |-> Red],
      [id |-> 2, rgb |-> <<120, 70, 70>>] }

\* Entries that tie: the vivid red under two ids (duplicate colours are allowed),
\* and two greys at the same 'rgb' distance from Gray, one on each side of it
TieEntries ==
    { [id |-> 1, rgb |-> Red],
      [id |-> 9, rgb |-> Red],
      [id |-> 3, rgb |-> <<100, 100, 110>>],
      [id |-> 4, rgb |-> <<100, 100, 90>>] }

\* Palettes: the sequences of distinct entries of either set, the empty one included
MatchPalettes ==
    { p \in UNION { [1..k -> MatchEntries] \cup [1..k -> TieEntries] :
                    k \in 0..MaxPaletteLen } :
        \A i, j \in 1..Len(p) : i # j => p[i] # p[j] }

MatchTargets == {White, Red, Gray}

\* findClosestPaletteColor(r, g, b, palette, algorithm, {enableChromaPenalty})
FindClosest ==
    /\ call = NoCall
    /\ \E t \in MatchTargets, p \in MatchPalettes,
          alg \in {"rgb", "hsv", "oklab", "lab"}, pen \in BOOLEAN :
         LET r == FindClosestPaletteColor(labCache, ToFP(t), p, alg, pen,
                                          DefaultChromaPenaltyWeight)
         IN /\ call' = [op |-> "findClosestPaletteColor", target |-> t, palette |-> p,
                        algorithm |-> alg, enableChromaPenalty |-> pen]
            /\ ret' = r.rgb
            /\ labCache' = r.cache
    /\ UNCHANGED <<canvas, colorCache, ditherBuffers, pipeline>>

\* resolveColor(targetRgb, availableColors, {exactMatch, algorithm, enableChromaPenalty})
Resolve ==
    /\ call = NoCall
    /\ \E t \in MatchTargets, p \in MatchPalettes, ex \in BOOLEAN,
          alg \in {"legacy", "lab"}, pen \in BOOLEAN :
         LET r == ResolveColor(colorCache, labCache, t, p, ex, alg, pen,
                               DefaultChromaPenaltyWeight, WHITE_THRESHOLD)
         IN /\ call' = [op |-> "resolveColor", target |-> t, palette |-> p,
                        exactMatch |-> ex, algorithm |-> alg, enableChromaPenalty |-> pen,
                        whiteThreshold |-> WHITE_THRESHOLD]
            /\ ret' = r.result
            /\ colorCache' = r.colorCache
            /\ labCache' = r.labCache
    /\ UNCHANGED <<canvas, ditherBuffers, pipeline>>

NextMatch == FindClosest \/ Resolve

SpecMatch == Init /\ [][NextMatch]_vars

-----------------------------------------------------------------------------
(* Rasters *)

\* Most pixels of a raster handed to an operation
MaxPixels == 4

\* <<width, height>> of the rasters of at most maxPixels pixels
RasterSizes(maxPixels) ==
    { s \in (1..maxPixels) \X (1..maxPixels) : s[1] * s[2] <= maxPixels }

\* The rasters of at most maxPixels pixels drawn from pixels
RastersOf(pixels, maxPixels) ==
    UNION { { [width |-> s[1], height |-> s[2], data |-> d] :
              d \in [1..(s[1] * s[2]) -> pixels] } : s \in RasterSizes(maxPixels) }

-----------------------------------------------------------------------------
(* Quantization on a fresh processor: one quantizer call per behaviour *)

\* Pixels on the edges of the policies: alpha at the transparency threshold, a
\* white with one channel at the white threshold, alpha just under the threshold
QuantPixels == { <<190, 40, 40, 128>>, <<230, 240, 255, 255>>, <<90, 110, 100, 127>> }

\* Pixels met alone: a transparent white, a channel just under the white
\* threshold, an opaque black
QuantEdgePixels == { <<255, 255, 255, 0>>, <<229, 255, 255, 255>>, <<0, 0, 0, 255>> }

QuantRasters == RastersOf(QuantPixels, MaxPixels) \cup RastersOf(QuantEdgePixels, 1)

\* Palettes handed to the quantizers, the empty one included
QuantPalettes ==
    { <<>>,
      << [id |-> 5, rgb |-> White], [id |-> 0, rgb |-> Black], [id |-> 1, rgb |-> Red] >> }

\* The options after destructuring, the thresholds and the weight at their defaults
QuantOptions(algorithm, penalty, paintTransparent, paintWhite) ==
    [algorithm |-> algorithm,
     enableChromaPenalty |-> penalty,
     chromaPenaltyWeight |-> DefaultChromaPenaltyWeight,
     paintTransparentPixels |-> paintTransparent,
     paintWhitePixels |-> paintWhite,
     transparencyThreshold |-> TRANSPARENCY_THRESHOLD,
     whiteThreshold |-> WHITE_THRESHOLD]

\* strength = 0.5, in 1/100
DefaultStrength == 50

DitherMethods ==
    {"floyd", "atkinson", "jarvis", "stucki", "burkes", "sierra",
     "bayer2", "bayer4", "bayer8", "random", "unknown"}

\* Draws of Math.random() in 1/64 for the n pixels of a call: all low, all high,
\* alternating; other methods never draw
RandomDraws(method, n) ==
    IF method = "random"
    THEN { [i \in 1..n |-> 0], [i \in 1..n |-> 63],
           [i \in 1..n |-> IF i % 2 = 1 THEN 0 ELSE 63] }
    ELSE { [i \in 1..n |-> 0] }

\* loadFromBitmap of a raster to quantize
LoadQuantRaster ==
    /\ canvas = NoCanvas
    /\ call = NoCall
    /\ \E img \in QuantRasters : LoadFromBitmap(img)
    /\ UNCHANGED <<pipeline, call, ret>>

\* applySimpleQuantization(this.getPixelData(), this.canvas.width,
\*                         this.canvas.height, palette, options), as quantize() calls it
SimpleQuantization ==
    /\ canvas # NoCanvas
    /\ call = NoCall
    /\ \E p \in QuantPalettes, alg \in {"rgb", "hsv", "oklab", "lab"},
          pt \in BOOLEAN, pw \in BOOLEAN :
         LET o == QuantOptions(alg, FALSE, pt, pw)
             r == ApplySimpleQuantization(labCache, canvas.data, p, o)
         IN /\ call' = [op |-> "applySimpleQuantization", imageData |-> canvas.data,
                        width |-> canvas.width, height |-> canvas.height, palette |-> p,
                        method |-> "none", options |-> o]
            /\ ret' = [data |-> r.data, totalValidPixels |-> r.totalValid]
            /\ labCache' = r.cache
    /\ UNCHANGED <<canvas, colorCache, ditherBuffers, pipeline>>

\* applyDithering(this.getPixelData(), w, h, palette, {method, strength, ...}), as
\* dither() calls it
Dithering ==
    /\ canvas # NoCanvas
    /\ call = NoCall
    /\ \E p \in QuantPalettes, method \in DitherMethods, pt \in BOOLEAN, pw \in BOOLEAN :
         \E random \in RandomDraws(method, Len(canvas.data)) :
            LET o == QuantOptions("lab", FALSE, pt, pw)
                r == ApplyDithering(labCache, canvas.data, canvas.width, canvas.height, p,
                                    method, DefaultStrength, o, random)
            IN /\ call' = [op |-> "applyDithering", imageData |-> canvas.data,
                           width |-> canvas.width, height |-> canvas.height, palette |-> p,
                           method |-> method, options |-> o]
               /\ ret' = [data |-> r.data, totalValidPixels |-> r.totalValid]
               /\ labCache' = r.cache
               /\ ditherBuffers' = EnsureDitherBuffers(ditherBuffers, method,
                                                      canvas.width * canvas.height)
    /\ UNCHANGED <<canvas, colorCache, pipeline>>

NextQuant == LoadQuantRaster \/ SimpleQuantization \/ Dithering

SpecQuant == Init /\ [][NextQuant]_vars

-----------------------------------------------------------------------------
(* Dithering of a loaded canvas: ordered dithering at the ends of the        *)
(* strength range, once and, for the Bayer methods, once again on the same   *)
(* processor, and error diffusion                                            *)

\* Opaque black and white
OrderedPixels == { <<0, 0, 0, 255>>, <<255, 255, 255, 255>> }

\* A mid grey whose alpha sits at the transparency threshold and two pixels under
\* it, met alone or in pairs
OrderedEdgePixels ==
    { <<128, 128, 128, 128>>, <<255, 255, 255, 127>>, <<90, 110, 100, 127>> }

\* The 4x4 checkerboard of opaque black and white
Checkerboard ==
    [width |-> 4, height |-> 4,
     data |-> [i \in 1..16 |->
                 IF (((i - 1) % 4) + ((i - 1) \div 4)) % 2 = 0
                 THEN <<0, 0, 0, 255>> ELSE <<255, 255, 255, 255>>]]

\* Longest side of a flat raster
FlatSide == 3

\* Mid grey, 50% of the channel range rounded down and up
MidGreys == {127, 128}

\* The fully opaque rasters of one mid grey
FlatRasters ==
    { [width |-> w, height |-> h, data |-> [i \in 1..(w * h) |-> <<g, g, g, 255>>]] :
      w \in 1..FlatSide, h \in 1..FlatSide, g \in MidGreys }

DitherRasters ==
    RastersOf(OrderedPixels, MaxPixels) \cup RastersOf(OrderedEdgePixels, 2)
        \cup {Checkerboard} \cup FlatRasters

\* The palette [black, white]
BlackWhite == << [id |-> 0, rgb |-> Black], [id |-> 5, rgb |-> White] >>

\* [black, white] and the empty palette
DitherPalettes == { BlackWhite, <<>> }

OrderedMethods == {"bayer2", "bayer4", "bayer8", "random"}

\* strength 0 and strength 1.0, in 1/100
OrderedStrengths == {0, 100}

\* Draws of Math.random() in 1/64 for the n pixels of a call: all low, or
\* alternating low and high
OrderedDraws(n) ==
    { [i \in 1..n |-> 0], [i \in 1..n |-> IF i % 2 = 1 THEN 0 ELSE 63] }

\* loadFromBitmap of a raster to dither
LoadDitherRaster ==
    /\ canvas = NoCanvas
    /\ call = NoCall
    /\ \E img \in DitherRasters : LoadFromBitmap(img)
    /\ UNCHANGED <<pipeline, call, ret>>

\* applyDithering(this.getPixelData(), w, h, palette, {method, strength, ...}) with
\* the arguments of c, the pass-th such call; first is what the call before returned
DitherCall(c, pass, first) ==
    \E random \in OrderedDraws(Len(canvas.data)) :
       LET r == ApplyDithering(labCache, canvas.data, canvas.width, canvas.height,
                               c.palette, c.method, c.strength, c.options, random)
       IN /\ call' = [op |-> "applyDithering", imageData |-> canvas.data,
                      width |-> canvas.width, height |-> canvas.height,
                      palette |-> c.palette, method |-> c.method,
                      strength |-> c.strength, options |-> c.options,
                      pass |-> pass, first |-> first]
          /\ ret' = [data |-> r.data, totalValidPixels |-> r.totalValid]
          /\ labCache' = r.cache
          /\ ditherBuffers' = EnsureDitherBuffers(ditherBuffers, c.method,
                                                 canvas.width * canvas.height)
          /\ UNCHANGED <<canvas, colorCache, pipeline>>

\* The first ordered dithering of the loaded canvas
OrderedDither ==
    /\ canvas # NoCanvas
    /\ call = NoCall
    /\ \E p \in DitherPalettes, method \in OrderedMethods,
          strength \in OrderedStrengths, pt \in BOOLEAN, pw \in BOOLEAN :
         DitherCall([palette |-> p, method |-> method, strength |-> strength,
                      options |-> QuantOptions("lab", FALSE, pt, pw)], 1, <<>>)

\* The same Bayer dithering once more, on the caches the first call left
OrderedDitherAgain ==
    /\ call.op = "applyDithering"
    /\ call.pass = 1
    /\ call.method # "random"
    /\ DitherCall(call, 2, ret)

ErrorDiffusionMethods == {"floyd", "atkinson", "jarvis", "stucki", "burkes", "sierra"}

\* An error-diffusion dithering of the loaded canvas, at the default strength
\* (error diffusion takes no strength)
DiffusionDither ==
    /\ canvas # NoCanvas
    /\ call = NoCall
    /\ \E p \in DitherPalettes, method \in ErrorDiffusionMethods,
          pt \in BOOLEAN, pw \in BOOLEAN :
         DitherCall([palette |-> p, method |-> method, strength |-> DefaultStrength,
                     options |-> QuantOptions("lab", FALSE, pt, pw)], 1, <<>>)

NextDither == LoadDitherRaster \/ OrderedDither \/ OrderedDitherAgain \/ DiffusionDither

SpecDither == Init /\ [][NextDither]_vars

-----------------------------------------------------------------------------
(* The life of one processor: loads, matcher calls that fill the caches,     *)
(* dithering, cleanup, and raster operations called while no image is loaded *)

\* Two images of one pixel
ProcessorRasters ==
    { [width |-> 1, height |-> 1, data |-> << <<100, 100, 100, 255>> >>],
      [width |-> 1, height |-> 1, data |-> << <<255, 255, 255, 255>> >>] }

ProcessorTargets == {White, Gray}

ProcessorPalette == << [id |-> 5, rgb |-> White], [id |-> 1, rgb |-> Red] >>

\* load(): without an image source it throws; the image failing to decode rejects
\* with the error event; otherwise onload creates the canvas and draws the image.
\* src is what this.imageSrc decodes to, NoCanvas for no source
Load ==
    /\ \E src \in {NoCanvas} \cup ProcessorRasters, decodes \in BOOLEAN :
         /\ call' = [op |-> "load"]
         /\ IF src = NoCanvas
            THEN ret' = Thrown("No image source provided") /\ canvas' = canvas
            ELSE IF ~decodes
            THEN ret' = Thrown("error event") /\ canvas' = canvas
            ELSE ret' = Undefined /\ canvas' = src
    /\ UNCHANGED <<colorCache, labCache, ditherBuffers, pipeline>>

\* loadFromBitmap(bitmap)
LoadBitmap ==
    /\ \E img \in ProcessorRasters : LoadFromBitmap(img)
    /\ call' = [op |-> "loadFromBitmap"]
    /\ ret' = Undefined
    /\ UNCHANGED pipeline

\* cleanup(): clearCaches, then the canvas and its context are dropped
Cleanup ==
    /\ ClearCaches
    /\ canvas' = NoCanvas
    /\ call' = [op |-> "cleanup"]
    /\ ret' = Undefined
    /\ UNCHANGED pipeline

\* resolveColor(targetRgb, availableColors, {exactMatch}) at any time
ResolveNext ==
    /\ \E t \in ProcessorTargets, ex \in BOOLEAN :
         LET r == ResolveColor(colorCache, labCache, t, ProcessorPalette, ex, "lab", FALSE,
                               DefaultChromaPenaltyWeight, WHITE_THRESHOLD)
         IN /\ call' = [op |-> "resolveColor", target |-> t, exactMatch |-> ex]
            /\ ret' = r.result
            /\ colorCache' = r.colorCache
            /\ labCache' = r.labCache
    /\ UNCHANGED <<canvas, ditherBuffers, pipeline>>

\* findClosestPaletteColor(r, g, b, palette, 'lab') at any time
FindClosestNext ==
    /\ \E t \in ProcessorTargets :
         LET r == FindClosestPaletteColor(labCache, ToFP(t), ProcessorPalette, "lab", FALSE,
                                          DefaultChromaPenaltyWeight)
         IN /\ call' = [op |-> "findClosestPaletteColor", target |-> t]
            /\ ret' = r.rgb
            /\ labCache' = r.cache
    /\ UNCHANGED <<canvas, colorCache, ditherBuffers, pipeline>>

\* methodMap[method] || method of dither()
MethodMap(method) ==
    IF method = "floyd-steinberg" THEN "floyd"
    ELSE IF method = "ordered" THEN "bayer4"
    ELSE method

\* dither(method, palette, strength, colorSpace, options): throws without an image,
\* otherwise applyDithering on the canvas pixels and setPixelData of the result
Dither ==
    /\ \E method \in {"floyd-steinberg", "ordered"} :
         /\ call' = [op |-> "dither", method |-> method, loaded |-> canvas # NoCanvas]
         /\ IF canvas = NoCanvas
            THEN /\ ret' = Thrown("Image not loaded")
                 /\ UNCHANGED <<canvas, labCache, ditherBuffers>>
            ELSE LET r == ApplyDithering(labCache, canvas.data, canvas.width, canvas.height,
                                         ProcessorPalette, MethodMap(method),
                                         DefaultStrength,
                                         QuantOptions("lab", FALSE, FALSE, TRUE),
                                         [i \in 1..Len(canvas.data) |-> 0])
                 IN /\ ret' = Undefined
                    /\ canvas' = [canvas EXCEPT !.data = r.data]
                    /\ labCache' = r.cache
                    /\ ditherBuffers' = EnsureDitherBuffers(ditherBuffers, MethodMap(method),
                                                           canvas.width * canvas.height)
    /\ UNCHANGED <<colorCache, pipeline>>

\* The methods that begin with if (!this.ctx) throw new Error('Image not loaded')
\* (resize: !this.canvas || !this.ctx), dither apart
GuardedOperations ==
    {"getPixelData", "resize", "adjustColors", "blur", "sharpen", "edgeOverlay",
     "posterize", "modeFilter", "simplify", "erode", "quantize"}

\* One of the guarded methods called while no image is loaded
GuardedBeforeLoad ==
    /\ canvas = NoCanvas
    /\ \E op \in GuardedOperations :
         /\ call' = [op |-> op, loaded |-> FALSE]
         /\ ret' = Thrown("Image not loaded")
    /\ UNCHANGED <<canvas, colorCache, labCache, ditherBuffers, pipeline>>

\* _boxBlur(r) while this.canvas is null: if (r <= 0 || !this.canvas) return
BoxBlurBeforeLoad(r) == Undefined

\* _kuwaharaFilter(r) while this.canvas is null: canvas.width is read from null
KuwaharaBeforeLoad(r) == Thrown("TypeError: Cannot read properties of null")

\* applyPreBlur(mode, radius) called while no image is loaded; the three passes of
\* _gaussianBlur each return as _boxBlur does
ApplyPreBlurBeforeLoad ==
    /\ canvas = NoCanvas
    /\ \E mode \in {"none", "box", "gaussian", "kuwahara"}, radius \in {0, 1} :
         /\ call' = [op |-> "applyPreBlur", mode |-> mode, radius |-> radius,
                     loaded |-> FALSE]
         /\ ret' = IF mode = "none" \/ radius <= 0 THEN Undefined
                   ELSE IF mode = "kuwahara" THEN KuwaharaBeforeLoad(radius)
                   ELSE BoxBlurBeforeLoad(Max2(0, radius))
    /\ UNCHANGED <<canvas, colorCache, labCache, ditherBuffers, pipeline>>

\* applySharpen(amount, radius, threshold) called while no image is loaded:
\* if (amount <= 0 || radius <= 0 || !this.canvas) return
ApplySharpenBeforeLoad ==
    /\ canvas = NoCanvas
    /\ \E amount \in {0, 50}, radius \in {0, 1} :
         /\ call' = [op |-> "applySharpen", amount |-> amount, radius |-> radius,
                     loaded |-> FALSE]
         /\ ret' = Undefined
    /\ UNCHANGED <<canvas, colorCache, labCache, ditherBuffers, pipeline>>

NextProcessor ==
    \/ Load \/ LoadBitmap \/ Cleanup \/ ResolveNext \/ FindClosestNext \/ Dither
    \/ GuardedBeforeLoad \/ ApplyPreBlurBeforeLoad \/ ApplySharpenBeforeLoad

SpecProcessor == Init /\ [][NextProcessor]_vars

-----------------------------------------------------------------------------
(* Resampling of a loaded canvas: one resampleImage call per behaviour *)

\* Two greys of one 4-bit bucket, the second the bucket's representative, and a
\* translucent colour whose channels are multiples of 17
ResamplePixels == { <<100, 100, 100, 255>>, <<102, 102, 102, 255>>, <<17, 34, 51, 64>> }

ResampleRasters == RastersOf(ResamplePixels, MaxPixels)

\* <<dstW, dstH>>
ResampleSizes == RasterSizes(MaxPixels)

ResampleMethods == {"nearest", "bilinear", "box", "median", "dominant", "lanczos"}

\* loadFromBitmap of a raster to resample
LoadResampleRaster ==
    /\ canvas = NoCanvas
    /\ call = NoCall
    /\ \E img \in ResampleRasters : LoadFromBitmap(img)
    /\ UNCHANGED <<pipeline, call, ret>>

\* resampleImage(this.canvas, dstW, dstH, method), as resize() calls it
Resample ==
    /\ canvas # NoCanvas
    /\ call = NoCall
    /\ \E s \in ResampleSizes, method \in ResampleMethods :
         /\ call' = [op |-> "resampleImage", source |-> canvas, dstW |-> s[1],
                     dstH |-> s[2], method |-> method]
         /\ ret' = ResampleImage(canvas, s[1], s[2], method)
    /\ UNCHANGED <<canvas, colorCache, labCache, ditherBuffers, pipeline>>

NextResample == LoadResampleRaster \/ Resample

SpecResample == Init /\ [][NextResample]_vars

-----------------------------------------------------------------------------
(* Region simplification of a loaded canvas, once and once again *)

\* Largest minArea handed to simplify
MaxMinArea == 3

\* minArea in halves: 0, 0.5, 1, ... MaxMinArea
MinAreas == 0..(2 * MaxMinArea)

\* Three opaque colours, one of them at the alpha threshold, and a transparent pixel
SimplifyPixels ==
    { <<200, 30, 30, 255>>, <<30, 200, 30, 255>>, <<30, 30, 200, 128>>, <<0, 0, 0, 127>> }

SimplifyRasters == RastersOf(SimplifyPixels, MaxPixels)

\* loadFromBitmap of a raster to simplify
LoadSimplifyRaster ==
    /\ canvas = NoCanvas
    /\ call = NoCall
    /\ \E img \in SimplifyRasters : LoadFromBitmap(img)
    /\ UNCHANGED <<pipeline, call, ret>>

\* simplify(minArea): getPixelData, simplifyRegions, setPixelData; pass counts the
\* calls made with this minArea
SimplifyCall(minArea, pass) ==
    /\ call' = [op |-> "simplifyRegions", imageData |-> canvas.data,
                width |-> canvas.width, height |-> canvas.height,
                minArea |-> minArea, pass |-> pass]
    /\ ret' = SimplifyRegions(canvas.data, canvas.width, canvas.height, minArea)
    /\ canvas' = [canvas EXCEPT !.data = ret']
    /\ UNCHANGED <<colorCache, labCache, ditherBuffers, pipeline>>

\* The first simplify(minArea) on the loaded canvas
Simplify ==
    /\ canvas # NoCanvas
    /\ call = NoCall
    /\ \E minArea \in MinAreas : SimplifyCall(minArea, 1)

\* simplify(minArea) again with the same minArea
SimplifyAgain ==
    /\ call.op = "simplifyRegions"
    /\ call.pass = 1
    /\ SimplifyCall(call.minArea, 2)

NextSimplify == LoadSimplifyRaster \/ Simplify \/ SimplifyAgain

SpecSimplify == Init /\ [][NextSimplify]_vars

-----------------------------------------------------------------------------
(* Claims about the matcher, checked under SpecMatch *)

PaletteHas(palette, rgb) == \E i \in 1..Len(palette) : palette[i].rgb = rgb

\* C1: for every matching algorithm (rgb, hsv, oklab, lab, with or without the
\* chroma penalty) and every palette holding an entry whose RGB equals the
\* target, findClosestPaletteColor returns that RGB.
C1_ExactEntryReturned ==
    (call.op = "findClosestPaletteColor" /\ PaletteHas(call.palette, call.target))
        => ret = call.target

\* C1 witness: a LAB match with the chroma penalty on a three-entry palette
\* whose last entry is the target
C1_Witness ==
    /\ call.op = "findClosestPaletteColor"
    /\ call.algorithm = "lab"
    /\ call.enableChromaPenalty
    /\ Len(call.palette) = 3
    /\ call.palette[3].rgb = call.target
    /\ call.target = Red
    /\ ret = Red

\* C2: with an empty or absent palette, findClosestPaletteColor and resolveColor
\* return a sentinel that has a null id and echoes the target colour.
C2_EmptyPaletteEchoesTarget ==
    /\ (call.op = "findClosestPaletteColor" /\ Len(call.palette) = 0)
           => ret = call.target
    /\ (call.op = "resolveColor" /\ Len(call.palette) = 0)
           => (ret.id = NullId /\ ret.rgb = call.target)

\* C3: a white target, a palette holding the exact white entry id 5 and at least
\* two near-white entries in any order, the default white threshold and
\* closest-match mode: resolveColor returns id 5.
C3_WhiteResolvesToId5 ==
    ( /\ call.op = "resolveColor"
      /\ call.target = White
      /\ ~call.exactMatch
      /\ call.whiteThreshold = WHITE_THRESHOLD
      /\ Len(call.palette) >= 3
      /\ \E i \in 1..Len(call.palette) : call.palette[i] = [id |-> 5, rgb |-> White]
      /\ \A i \in 1..Len(call.palette) : IsWhitePixel(call.palette[i].rgb, WHITE_THRESHOLD) )
        => ret.id = 5

-----------------------------------------------------------------------------
(* Claims about the quantizers, checked under SpecQuant *)

IsQuantizerCall == call.op \in {"applySimpleQuantization", "applyDithering"}

\* C4: after applySimpleQuantization or applyDithering (any method) with a
\* non-empty palette, every output pixel has alpha 0 or 255, every output pixel
\* with alpha 255 has the RGB of some palette entry, and the output is as long
\* as the input, width * height pixels of four bytes.
C4_OutputIsQuantized ==
    (IsQuantizerCall /\ Len(call.palette) > 0) =>
        /\ Len(ret.data) = Len(call.imageData)
        /\ Len(ret.data) = call.width * call.height
        /\ \A i \in 1..Len(ret.data) :
             /\ Len(ret.data[i]) = 4
             /\ ret.data[i][4] \in {0, 255}
             /\ ret.data[i][4] = 255 => PaletteHas(call.palette, Rgb(ret.data[i]))

\* C4 witness: an error-diffusion call on a 2 x 2 raster that painted one pixel
\* with a palette colour other than its own and zeroed the alpha of another
C4_Witness ==
    /\ call.op = "applyDithering"
    /\ call.method = "floyd"
    /\ call.width = 2 /\ call.height = 2
    /\ Len(call.palette) > 0
    /\ \E i, j \in 1..4 :
         /\ ret.data[i][4] = 255
         /\ Rgb(ret.data[i]) # Rgb(call.imageData[i])
         /\ ret.data[j][4] = 0
         /\ call.imageData[j][4] = 255

\* The pixels the transparency and white-skip policies of the call do not exclude
EligiblePixels ==
    { i \in 1..Len(call.imageData) :
        /\ (call.options.paintTransparentPixels
              \/ call.imageData[i][4] >= call.options.transparencyThreshold)
        /\ (call.options.paintWhitePixels
              \/ \E c \in 1..3 : call.imageData[i][c] < call.options.whiteThreshold) }

\* C5: totalValidPixels of applySimpleQuantization, _applyErrorDiffusion and
\* _applyOrderedDither is the number of eligible pixels, each counted once, and
\* every ineligible pixel ends with alpha 0, whatever the raster dimensions.
C5_ValidPixelCount ==
    IsQuantizerCall =>
        /\ ret.totalValidPixels = Cardinality(EligiblePixels)
        /\ \A i \in 1..Len(call.imageData) : i \notin EligiblePixels => ret.data[i][4] = 0

\* C5 witness: an ordered dither that paints transparent pixels and skips white
\* ones, on four pixels of which some are counted and some are not
C5_Witness ==
    /\ call.op = "applyDithering"
    /\ call.method = "bayer4"
    /\ call.options.paintTransparentPixels /\ ~call.options.paintWhitePixels
    /\ Len(call.imageData) = 4
    /\ ret.totalValidPixels = 2
    /\ \E i, j \in 1..4 : /\ call.imageData[i][4] < 128 /\ i \in EligiblePixels
                          /\ call.imageData[j][4] = 255 /\ j \notin EligiblePixels

-----------------------------------------------------------------------------
(* Claims about the resampler, checked under SpecResample *)

\* srcW / dstW of the call is within 1e-6 of an integer k
FactorIsInteger ==
    \E k \in 0..call.source.width :
        Abs(call.source.width - k * call.dstW) * 1000000 < call.dstW

\* The k of FactorIsInteger, at least 1
BlockFactor ==
    Max2(1, CHOOSE k \in 0..call.source.width :
                Abs(call.source.width - k * call.dstW) * 1000000 < call.dstW)

\* C6: resampleImage routes by scale factor: when srcW/dstW is not within 1e-6
\* of an integer, 'bilinear' runs bilinear and every other method name gives
\* exactly the nearest-neighbour result; when it is, box, median and dominant
\* run with block factor F = max(1, round(srcW/dstW)).
C6_RoutingByFactor ==
    call.op = "resampleImage" =>
        /\ (~FactorIsInteger /\ call.method = "bilinear")
              => ret = ResampleBilinear(call.source, call.dstW, call.dstH)
        /\ (~FactorIsInteger /\ call.method # "bilinear")
              => ret = ResampleNearest(call.source, call.dstW, call.dstH)
        /\ (FactorIsInteger /\ call.method = "box")
              => ret = ResampleBox(call.source, call.dstW, call.dstH, BlockFactor)
        /\ (FactorIsInteger /\ call.method = "median")
              => ret = ResampleMedian(call.source, call.dstW, call.dstH, BlockFactor)
        /\ (FactorIsInteger /\ call.method = "dominant")
              => ret = ResampleDominant(call.source, call.dstW, call.dstH, BlockFactor)

\* C6 witness: a box request from width 3 to width 2 answered with the
\* nearest-neighbour raster, which is not what the box filter of factor 2 gives
C6_Witness ==
    /\ call.op = "resampleImage"
    /\ call.method = "box"
    /\ call.source.width = 3 /\ call.dstW = 2
    /\ ret = ResampleNearest(call.source, call.dstW, call.dstH)
    /\ ret # ResampleBox(call.source, call.dstW, call.dstH, 2)

\* C7: box resampling by an integer factor of a source whose pixels all have the
\* same RGBA value returns, for any source and destination size, a raster whose
\* pixels all have that value.
C7_UniformBoxStaysUniform ==
    ( /\ call.op = "resampleImage"
      /\ call.method = "box"
      /\ FactorIsInteger
      /\ \A i \in 1..Len(call.source.data) : call.source.data[i] = call.source.data[1] )
        => /\ Len(ret.data) = call.dstW * call.dstH
           /\ \A q \in 1..Len(ret.data) : ret.data[q] = call.source.data[1]

\* The source block of destination pixel q of the call
CallBlock(q) ==
    BlockPixels(call.source,
                BlockBounds(call.source, (q - 1) % call.dstW, (q - 1) \div call.dstW,
                            BlockFactor))

\* The pixels of a block whose RGB is rgb
ColourCount(block, rgb) == Cardinality({ k \in 1..Len(block) : Rgb(block[k]) = rgb })

\* The pixels of a block whose 4-bit bucket is idx
BucketCount(block, idx) ==
    Cardinality({ k \in 1..Len(block) : BucketIndex(block[k]) = idx })

IsDominantCall == call.op = "resampleImage" /\ call.method = "dominant" /\ FactorIsInteger

-----------------------------------------------------------------------------
(* Claims about simplifyRegions, checked under SpecSimplify *)

\* Pixels i and j of the call's raster touch by an edge
Adjacent(i, j) ==
    \/ /\ (i - 1) \div call.width = (j - 1) \div call.width
       /\ Abs(((i - 1) % call.width) - ((j - 1) % call.width)) = 1
    \/ /\ (i - 1) % call.width = (j - 1) % call.width
       /\ Abs(((i - 1) \div call.width) - ((j - 1) \div call.width)) = 1

RECURSIVE Grown(_, _)
\* The opaque pixels of data joined to the set S by edges between pixels of
\* equal RGB
Grown(data, S) ==
    LET more == { j \in 1..Len(data) :
                    /\ data[j][4] >= 128
                    /\ \E i \in S : Adjacent(i, j) /\ Rgb(data[i]) = Rgb(data[j]) }
    IN IF more \subseteq S THEN S ELSE Grown(data, S \cup more)

\* The 4-connected component of opaque pixel i in the input of the call
Component(i) == Grown(call.imageData, {i})

\* The RGB of the components that touch the component of pixel i in the input
NeighbourColours(i) ==
    { Rgb(call.imageData[j]) :
        j \in { n \in 1..Len(call.imageData) :
                  /\ call.imageData[n][4] >= 128
                  /\ n \notin Component(i)
                  /\ \E m \in Component(i) : Adjacent(m, n) } }

\* A first call with a whole threshold T >= 1, minArea = T
IsSimplifyWithThreshold ==
    /\ call.op = "simplifyRegions"
    /\ call.pass = 1
    /\ call.minArea >= 2
    /\ call.minArea % 2 = 0

\* C9: simplifyRegions with threshold T repaints every 4-connected component of
\* exact-RGB-equal opaque pixels of size < T to the colour of a neighbouring
\* component, and leaves every pixel of every component of size >= T unchanged.
\* Read in favour of the code: a component of size < T that touches another
\* component need not be repainted when, in the result, merges into it have made
\* its component at least T pixels large or have left it no other component to
\* touch.
C9_SmallComponentsRepainted ==
    IsSimplifyWithThreshold =>
        \A i \in 1..Len(call.imageData) :
            call.imageData[i][4] >= 128 =>
                /\ (Cardinality(Component(i)) < call.minArea \div 2
                      /\ NeighbourColours(i) # {})
                     => \/ Rgb(ret[i]) \in NeighbourColours(i)
                        \/ Cardinality(Grown(ret, {i})) >= call.minArea \div 2
                        \/ \A n \in 1..Len(ret) :
                             (\E m \in Grown(ret, {i}) : Adjacent(m, n))
                                => (n \in Grown(ret, {i}) \/ ret[n][4] < 128)
                /\ Cardinality(Component(i)) >= call.minArea \div 2
                     => ret[i] = call.imageData[i]

\* C10: simplifyRegions is idempotent for a fixed threshold: the second of two
\* calls with the same threshold returns its input, the result of the first,
\* pixel for pixel.
C10_SimplifyIdempotent ==
    (call.op = "simplifyRegions" /\ call.pass = 2) => ret = call.imageData

-----------------------------------------------------------------------------
(* Claims about dithering, checked under SpecDither *)

\* The call is an ordered dithering of a raster of opaque black and white pixels
\* against [black, white] with bayer2 at strength 1.0, white pixels being painted
\* (the default policy)
IsBayer2OfBlackWhite ==
    /\ call.op = "applyDithering"
    /\ call.method = "bayer2"
    /\ call.strength = 100
    /\ call.palette = BlackWhite
    /\ call.options.paintWhitePixels
    /\ \A i \in 1..Len(call.imageData) : call.imageData[i] \in OrderedPixels

\* C11: bayer2 at strength 1.0 of an opaque raster of pure black and pure white
\* pixels against [black, white] returns the input pattern with every pixel
\* counted, and a second run of the same call returns what the first returned.
C11_Bayer2KeepsBlackWhite ==
    IsBayer2OfBlackWhite =>
        /\ ret.data = call.imageData
        /\ ret.totalValidPixels = Len(call.imageData)
        /\ (call.pass = 2 => ret = call.first)

\* The 4x4 checkerboard has been dithered twice
C11_Witness ==
    /\ IsBayer2OfBlackWhite
    /\ call.imageData = Checkerboard.data
    /\ call.pass = 2
    /\ ret.data = Checkerboard.data

\* C20: an ordered dithering (bayer2, bayer4, bayer8, random) at strength 0
\* returns the data and the totalValidPixels that applySimpleQuantization returns
\* for the same pixels, palette and options.
C20_StrengthZeroIsQuantization ==
    (call.op = "applyDithering" /\ call.method \in OrderedMethods /\ call.strength = 0)
        => Only({ ret = [data |-> q.data, totalValidPixels |-> q.totalValid] :
                  q \in {ApplySimpleQuantization(EmptyMap, call.imageData, call.palette,
                                                 call.options)} })

\* A random dithering at strength 0 of a raster that holds the
\* mid grey and a pixel under the transparency threshold, one painted, one skipped
C20_Witness ==
    /\ call.op = "applyDithering"
    /\ call.method = "random"
    /\ call.strength = 0
    /\ ~call.options.paintTransparentPixels
    /\ call.imageData = << <<128, 128, 128, 128>>, <<90, 110, 100, 127>> >>
    /\ ret.totalValidPixels = 1
    /\ ret.data[1] = <<255, 255, 255, 255>>
    /\ ret.data[2][4] = 0

\* Luminance of a pixel in 1/1000: 0.299 r + 0.587 g + 0.114 b
Luminance(px) == 299 * px[1] + 587 * px[2] + 114 * px[3]

RECURSIVE LuminanceSum(_, _)
\* The luminances of the first n pixels of data added up
LuminanceSum(data, n) ==
    IF n = 0 THEN 0 ELSE Luminance(data[n]) + LuminanceSum(data, n - 1)

\* The call is a Floyd-Steinberg dithering of a flat mid-grey raster against
\* [black, white]
IsFloydOfMidGrey ==
    /\ call.op = "applyDithering"
    /\ call.method = "floyd"
    /\ call.palette = BlackWhite
    /\ [width |-> call.width, height |-> call.height, data |-> call.imageData]
           \in FlatRasters

\* C12: Floyd-Steinberg dithering of a fully opaque flat mid-grey raster against
\* [black, white] returns black and white pixels whose luminances add up to the
\* input's within 255, one pixel's step from black to white: the mean luminance
\* of a raster of n pixels moves by at most 255 / n.
C12_FloydKeepsMeanLuminance ==
    IsFloydOfMidGrey =>
        /\ \A i \in 1..Len(ret.data) :
              ret.data[i] \in { <<0, 0, 0, 255>>, <<255, 255, 255, 255>> }
        /\ Abs(LuminanceSum(ret.data, Len(ret.data))
                 - LuminanceSum(call.imageData, Len(call.imageData))) <= 255 * 1000

\* The largest flat raster has been dithered into as many black pixels as white ones
C12_Witness ==
    /\ IsFloydOfMidGrey
    /\ call.width = FlatSide
    /\ call.height = FlatSide
    /\ Cardinality({ i \in 1..Len(ret.data) : ret.data[i][1] = 0 }) >= (FlatSide * FlatSide) \div 2
    /\ Cardinality({ i \in 1..Len(ret.data) : ret.data[i][1] = 255 }) >= (FlatSide * FlatSide) \div 2

-----------------------------------------------------------------------------
(* Claims about preconditions *)

\* The invocation ended in a thrown error
IsError(r) == "error" \in DOMAIN r

\* C14: a quantizer (applySimpleQuantization or applyDithering, as quantize and
\* dither call them) handed a zero-sized palette throws an error and returns no
\* raster.  Checked under SpecQuant.
C14_EmptyPaletteFails ==
    (IsQuantizerCall /\ call.palette = <<>>) => IsError(ret)

\* The raster operations of the processor
RasterOperations == GuardedOperations \cup {"dither", "applyPreBlur", "applySharpen"}

\* C15: a raster operation called on a processor without an image throws the
\* error 'Image not loaded' and leaves the processor without canvas; none returns
\* silently.  Checked under SpecProcessor.
C15_UnloadedOperationsThrow ==
    (call.op \in RasterOperations /\ ~call.loaded) =>
        (ret = Thrown("Image not loaded") /\ canvas = NoCanvas)

\* C16: after any sequence of resolveColor and findClosestPaletteColor calls
\* neither _colorCache nor _labCache holds more entries than the cap.  Checked
\* under SpecProcessor.
C16_CachesBounded ==
    /\ Cardinality(DOMAIN colorCache) <= ColorCacheLimit
    /\ Cardinality(DOMAIN labCache) <= ColorCacheLimit

\* C17: when load or loadFromBitmap has put a new image on the canvas, both memo
\* caches are empty and the dither buffers are dropped.  Checked under
\* SpecProcessor.
C17_LoadResetsCaches ==
    (call.op \in {"load", "loadFromBitmap"} /\ ret = Undefined) =>
        (colorCache = EmptyMap /\ labCache = EmptyMap /\ ditherBuffers = 0)

-----------------------------------------------------------------------------
(* Claims about the palette scan *)

\* The scoring a nearest-colour loop uses for the recorded call
ScanAlgorithm ==
    IF call.op = "resolveColor"
    THEN (IF call.algorithm = "legacy" THEN "rgb" ELSE "lab")
    ELSE call.algorithm

\* The score of entry i of the recorded call's palette, computed afresh
ScanScore(i) ==
    Score(ToFP(call.target), call.palette[i].rgb, ScanAlgorithm,
          call.enableChromaPenalty, DefaultChromaPenaltyWeight,
          <<RgbToLab(ToFP(call.target)), RgbToLab(ToFP(call.palette[i].rgb))>>)

\* The recorded call ran a nearest-colour loop over a non-empty palette
IsPaletteScan ==
    /\ call.op \in {"findClosestPaletteColor", "resolveColor"}
    /\ Len(call.palette) > 0
    /\ call.op = "resolveColor" =>
          /\ ~call.exactMatch
          /\ ~(/\ IsWhitePixel(call.target, call.whiteThreshold)
               /\ FindWhite(call.palette, call.whiteThreshold) # 0)

\* The first index of the palette that attains the lowest score
FirstLowest ==
    CHOOSE i \in 1..Len(call.palette) :
        /\ \A j \in 1..Len(call.palette) : ScanScore(i) <= ScanScore(j)
        /\ \A j \in 1..(i - 1) : ScanScore(j) > ScanScore(i)

\* C19, first half: the scan returns the first entry in palette order that attains
\* the lowest score
C19_FirstLowestScoreWins ==
    IsPaletteScan =>
        IF call.op = "resolveColor"
        THEN ret = [id |-> call.palette[FirstLowest].id,
                    rgb |-> call.palette[FirstLowest].rgb]
        ELSE ret = call.palette[FirstLowest].rgb

\* Two entries of the recorded palette tie for the lowest score
C19_TieWitness ==
    /\ IsPaletteScan
    /\ \E j \in 1..Len(call.palette) :
          j # FirstLowest /\ ScanScore(j) = ScanScore(FirstLowest)

\* The keys _getLab stores for the target and entries 1..i of the recorded palette
KeysRead(i) ==
    {LabKey(ToFP(call.target))} \cup {LabKey(ToFP(call.palette[k].rgb)) : k \in 1..i}

\* C19, second half: once an entry scores exactly 0 no later entry is examined.
\* On the LAB path every examined entry is read through _getLab, which leaves its
\* key in _labCache; the cache is empty before the call.
C19_ZeroScoreStopsScan ==
    (IsPaletteScan /\ ScanAlgorithm = "lab") =>
        \A i \in 1..Len(call.palette) :
            ScanScore(i) = 0 => DOMAIN labCache \subseteq KeysRead(i)

\* C19: in the palette scans of findClosestPaletteColor and resolveColor the first
\* entry in palette order that attains the lowest score is returned, and once an
\* entry with score exactly 0 is found no later entry is examined
C19_FirstLowestWinsAndZeroStops ==
    C19_FirstLowestScoreWins /\ C19_ZeroScoreStopsScan

\* C19 for resolveColor alone: its loops break at a score of 0
C19_ResolveStopsAtZero ==
    call.op = "resolveColor" => C19_ZeroScoreStopsScan

-----------------------------------------------------------------------------
(* The processing pipeline: updateProcessingPreview and applyProcessing      *)
(*                                                                         *)
(* Both functions run the same statements on the shared imageProcessor.     *)
(* pipeline = [pc, run, settings] is the position of the running function,  *)
(* pc naming its next statement.  In this section the raster is kept as the *)
(* term the stages build: canvas.data is the sequence of the operations     *)
(* applied to the bitmap since it was drawn, so the order of the stages is  *)
(* what the raster records; the memo caches, whose content depends on pixel *)
(* values, are followed only through clearCaches.  loadFromBitmap has no    *)
(* await inside, so a run goes from its load to its last stage without      *)
(* another timer or click handler in between: a run starts from Idle.       *)

\* processingSettings: contrast, saturation and hue stay 0 and gamma 100, so the
\* colour corrections run exactly when brightness is not 0
ProcessingSettings ==
    [ brightness : {0, 10}, blur : {0, 2}, blurMode : {"none", "box"},
      sharpen : {0, 50}, width : {1}, height : {1}, edgeThickness : {0, 1},
      posterize : {32, 8}, modeFilter : {0, 3}, simplify : {0, 2}, erode : {0, 1},
      ditheringEnabled : BOOLEAN, ditheringMethod : {"floyd-steinberg"} ]

\* state.originalBitmap once drawn: ctx.drawImage(bitmap, 0, 0)
OriginalBitmap == [width |-> 2, height |-> 2, data |-> <<"drawImage">>]

\* The statement order with the resize moved in front of the colour corrections
StageAfterResizeFirst(stage) ==
    CASE stage = "loadFromBitmap" -> "resize"
      [] stage = "resize" -> "adjustColors"
      [] stage = "adjustColors" -> "blur"
      [] stage = "blur" -> "sharpen"
      [] stage = "sharpen" -> "edgeOverlay"
      [] stage = "edgeOverlay" -> "posterize"
      [] stage = "posterize" -> "modeFilter"
      [] stage = "modeFilter" -> "simplify"
      [] stage = "simplify" -> "erode"
      [] stage = "erode" -> "palette"
      [] stage = "palette" -> "output"

\* The statement that follows a stage in updateProcessingPreview and in
\* applyProcessing (the same order in both)
StageAfter(stage) ==
    CASE stage = "loadFromBitmap" -> "adjustColors"
      [] stage = "adjustColors" -> "blur"
      [] stage = "blur" -> "sharpen"
      [] stage = "sharpen" -> "resize"
      [] stage = "resize" -> "edgeOverlay"
      [] stage = "edgeOverlay" -> "posterize"
      [] stage = "posterize" -> "modeFilter"
      [] stage = "modeFilter" -> "simplify"
      [] stage = "simplify" -> "erode"
      [] stage = "erode" -> "palette"
      [] stage = "palette" -> "output"

\* An operation of the processor applied to the canvas
ApplyStage(name) == canvas' = [canvas EXCEPT !.data = Append(@, name)]

\* A run up to its first stage: without state.originalBitmap it reports and
\* returns; otherwise await imageProcessor.loadFromBitmap(state.originalBitmap)
StartRun(run, status) ==
    /\ pipeline.pc = "idle"
    /\ call' = [op |-> run]
    /\ \E bitmap \in {NoCanvas, OriginalBitmap}, settings \in ProcessingSettings :
         IF bitmap = NoCanvas
         THEN /\ ret' = "No image loaded"
              /\ UNCHANGED <<canvas, colorCache, labCache, ditherBuffers, pipeline>>
         ELSE /\ ret' = status
              /\ LoadFromBitmap(bitmap)
              /\ pipeline' = [pc |-> StageAfter("loadFromBitmap"), run |-> run,
                              settings |-> settings]

\* updateProcessingPreview()
StartPreview == StartRun("updateProcessingPreview", "Processing preview...")

\* applyProcessing()
StartApply == StartRun("applyProcessing", "Applying processing...")

\* One conditional stage: if (enabled) imageProcessor.<name>(...)
RunStage(name, enabled) ==
    /\ pipeline.pc = name
    /\ IF enabled THEN ApplyStage(name) ELSE UNCHANGED canvas
    /\ pipeline' = [pipeline EXCEPT !.pc = StageAfter(name)]
    /\ UNCHANGED <<colorCache, labCache, ditherBuffers, call, ret>>

\* if (brightness !== 0 || ... || gamma !== 100) imageProcessor.adjustColors({...})
AdjustColorsStage ==
    /\ pipeline.pc = "adjustColors"
    /\ RunStage("adjustColors", pipeline.settings.brightness # 0)

\* if (blur > 0 && blurMode && blurMode !== 'none') imageProcessor.blur(blurMode, blur)
BlurStage ==
    /\ pipeline.pc = "blur"
    /\ RunStage("blur", pipeline.settings.blur > 0 /\ pipeline.settings.blurMode # "none")

\* if (sharpen > 0) imageProcessor.sharpen(sharpen / 100)
SharpenStage ==
    /\ pipeline.pc = "sharpen"
    /\ RunStage("sharpen", pipeline.settings.sharpen > 0)

\* imageProcessor.resize(width, height, resamplingMethod): always
ResizeStage ==
    /\ pipeline.pc = "resize"
    /\ canvas' = [width |-> pipeline.settings.width, height |-> pipeline.settings.height,
                  data |-> Append(canvas.data, "resize")]
    /\ pipeline' = [pipeline EXCEPT !.pc = StageAfter("resize")]
    /\ UNCHANGED <<colorCache, labCache, ditherBuffers, call, ret>>

\* if (edgeThickness > 0) imageProcessor.edgeOverlay(...)
EdgeOverlayStage ==
    /\ pipeline.pc = "edgeOverlay"
    /\ RunStage("edgeOverlay", pipeline.settings.edgeThickness > 0)

\* if (posterize < 32) imageProcessor.posterize(posterize)
PosterizeStage ==
    /\ pipeline.pc = "posterize"
    /\ RunStage("posterize", pipeline.settings.posterize < 32)

\* if (modeFilter > 0) imageProcessor.modeFilter(modeFilter)
ModeFilterStage ==
    /\ pipeline.pc = "modeFilter"
    /\ RunStage("modeFilter", pipeline.settings.modeFilter > 0)

\* if (simplify > 0) imageProcessor.simplify(simplify)
SimplifyStage ==
    /\ pipeline.pc = "simplify"
    /\ RunStage("simplify", pipeline.settings.simplify > 0)

\* if (erode > 0) imageProcessor.erode(erode)
ErodeStage ==
    /\ pipeline.pc = "erode"
    /\ RunStage("erode", pipeline.settings.erode > 0)

\* if (ditheringEnabled) imageProcessor.dither(...) else imageProcessor.quantize(...)
PaletteStage ==
    /\ pipeline.pc = "palette"
    /\ IF pipeline.settings.ditheringEnabled
       THEN /\ ApplyStage("dither")
            /\ ditherBuffers' = EnsureDitherBuffers(ditherBuffers,
                                    MethodMap(pipeline.settings.ditheringMethod),
                                    canvas.width * canvas.height)
       ELSE /\ ApplyStage("quantize")
            /\ UNCHANGED ditherBuffers
    /\ pipeline' = [pipeline EXCEPT !.pc = StageAfter("palette")]
    /\ UNCHANGED <<colorCache, labCache, call, ret>>

\* imageProcessor.getCanvas() and what follows: the preview is drawn, or the
\* result stored for placement; the run is over
OutputStage ==
    /\ pipeline.pc = "output"
    /\ ret' = IF pipeline.run = "applyProcessing" THEN "Processed" ELSE "Preview updated"
    /\ pipeline' = Idle
    /\ UNCHANGED <<canvas, colorCache, labCache, ditherBuffers, call>>

NextPipeline ==
    \/ StartPreview
    \/ StartApply
    \/ AdjustColorsStage
    \/ BlurStage
    \/ SharpenStage
    \/ ResizeStage
    \/ EdgeOverlayStage
    \/ PosterizeStage
    \/ ModeFilterStage
    \/ SimplifyStage
    \/ ErodeStage
    \/ PaletteStage
    \/ OutputStage

SpecPipeline == Init /\ [][NextPipeline]_vars

-----------------------------------------------------------------------------
(* Claims about the pipeline *)

\* The stages applied to the bitmap so far, in order
StagesApplied == IF canvas.data = <<>> THEN <<>> ELSE Tail(canvas.data)

\* The groups of stages in the order the functions run them
GroupInCode(name) ==
    CASE name \in {"adjustColors", "blur", "sharpen"} -> 1
      [] name = "resize" -> 2
      [] name \in {"edgeOverlay", "posterize", "modeFilter", "simplify", "erode"} -> 3
      [] name \in {"dither", "quantize"} -> 4

\* The groups of stages in the order the claim gives
GroupInClaim(name) ==
    CASE name = "resize" -> 1
      [] name \in {"adjustColors", "blur", "sharpen"} -> 2
      [] name \in {"dither", "quantize"} -> 3
      [] name \in {"edgeOverlay", "posterize", "modeFilter", "simplify", "erode"} -> 4

\* No stage was applied twice, and exactly the resize and one palette stage have
\* run once the run reaches its output
EachStageOnce ==
    /\ \A i, j \in 1..Len(StagesApplied) : i # j => StagesApplied[i] # StagesApplied[j]
    /\ ~(\E i, j \in 1..Len(StagesApplied) :
            StagesApplied[i] = "dither" /\ StagesApplied[j] = "quantize")
    /\ pipeline.pc = "output" =>
          /\ \E i \in 1..Len(StagesApplied) : StagesApplied[i] = "resize"
          /\ StagesApplied[Len(StagesApplied)] \in {"dither", "quantize"}

-----------------------------------------------------------------------------
(* Colour-space round trips: HSV, HSL, XYZ, LUV, YUV                         *)
(*                                                                         *)
(* The forward and the inverse conversion of each space, in fixed point.    *)
(* Hues are in 1/100 degree, fractions scaled by 10^4, XYZ and the u', v'   *)
(* chromaticities by 10^6, L, u, v by 10^4 and Y, U, V by 10^5.             *)

\* The value of 0 / 0, and of every expression computed from it
NaN == -1000000

RECURSIVE MulDivStep(_, _, _)
\* <<q, r>> with a * b = q * d + r and 0 <= r < d, for a, b >= 0 and d > 0, by
\* halving b: the quotient of a product that does not fit 32 bits
MulDivStep(a, b, d) ==
    IF b = 0 THEN <<0, 0>>
    ELSE Only({ Only({ <<2 * h[1] + (IF (b % 2) = 1 THEN a \div d ELSE 0) + (r \div d),
                         r % d>> :
                       r \in {2 * h[2] + (IF (b % 2) = 1 THEN a % d ELSE 0)} }) :
                h \in {MulDivStep(a, b \div 2, d)} })

\* a * b / d rounded toward zero
MulDiv(a, b, d) ==
    IF (a < 0) = (b < 0) THEN MulDivStep(Abs(a), Abs(b), d)[1]
    ELSE -(MulDivStep(Abs(a), Abs(b), d)[1])

\* Math.round of a non-negative channel value x / scale
RoundChannel(x, scale) == RoundDiv(x, scale)

\* _hsvToRgb(h, s, v): c = v * s, x = c * (1 - |(h / 60) % 2 - 1|), m = v - c
HsvToRgb(t) ==
    Only({ Only({ Only({ [i \in 1..3 |-> RoundChannel((p[i] + t[3] - c) * 255, 10000)] :
                         p \in { IF t[1] >= 0 /\ t[1] < 6000 THEN <<c, x, 0>>
                                 ELSE IF t[1] >= 6000 /\ t[1] < 12000 THEN <<x, c, 0>>
                                 ELSE IF t[1] >= 12000 /\ t[1] < 18000 THEN <<0, c, x>>
                                 ELSE IF t[1] >= 18000 /\ t[1] < 24000 THEN <<0, x, c>>
                                 ELSE IF t[1] >= 24000 /\ t[1] < 30000 THEN <<x, 0, c>>
                                 ELSE IF t[1] >= 30000 /\ t[1] < 36000 THEN <<c, 0, x>>
                                 ELSE <<0, 0, 0>> } }) :
                  x \in {(c * (6000 - Abs((t[1] % 12000) - 6000))) \div 6000} }) :
           c \in {(t[3] * t[2]) \div 10000} })

\* The hue of _rgbToHsl in 1/100 degree
HslHue(c, max, d) ==
    IF max = c[1] THEN TruncDiv((c[2] - c[3]) * 6000, d) + (IF c[2] < c[3] THEN 36000 ELSE 0)
    ELSE IF max = c[2] THEN TruncDiv((c[3] - c[1]) * 6000, d) + 12000
    ELSE TruncDiv((c[1] - c[2]) * 6000, d) + 24000

\* _rgbToHsl(r, g, b) on integer channels: <<h, s, l>>, h in 1/100 degree, s and l
\* (percent) in 1/100
RgbToHsl(c) ==
    Only({ <<IF m[1] = m[2] THEN 0 ELSE HslHue(c, m[1], m[1] - m[2]),
             IF m[1] = m[2] THEN 0
             ELSE IF m[1] + m[2] > 255 THEN ((m[1] - m[2]) * 10000) \div (510 - m[1] - m[2])
             ELSE ((m[1] - m[2]) * 10000) \div (m[1] + m[2]),
             ((m[1] + m[2]) * 10000) \div 510>> :
           m \in {<<Max2(c[1], Max2(c[2], c[3])), Min2(c[1], Min2(c[2], c[3]))>>} })

\* hue2rgb(p, q, t) of _hslToRgb, t in 1/100 degree of the full turn
Hue2rgb(p, q, t) ==
    Only({ IF u < 6000 THEN p + ((q - p) * u) \div 6000
           ELSE IF u < 18000 THEN q
           ELSE IF u < 24000 THEN p + ((q - p) * (24000 - u)) \div 6000
           ELSE p :
           u \in { IF t < 0 THEN t + 36000 ELSE IF t > 36000 THEN t - 36000 ELSE t } })

\* _hslToRgb(h, s, l)
HslToRgb(t) ==
    IF t[2] = 0 THEN [i \in 1..3 |-> RoundChannel(t[3] * 255, 10000)]
    ELSE Only({ <<RoundChannel(Hue2rgb(2 * t[3] - q, q, t[1] + 12000) * 255, 10000),
                  RoundChannel(Hue2rgb(2 * t[3] - q, q, t[1]) * 255, 10000),
                  RoundChannel(Hue2rgb(2 * t[3] - q, q, t[1] - 12000) * 255, 10000)>> :
                q \in { IF t[3] < 5000 THEN t[3] + (t[3] * t[2]) \div 10000
                        ELSE t[3] + t[2] - (t[3] * t[2]) \div 10000 } })

\* _rgbToXyz(r, g, b): <<X, Y, Z>> * 10^6
RgbToXyz(c) ==
    Only({ <<(lin[1] * 41246 + lin[2] * 35758 + lin[3] * 18044) \div 1000,
             (lin[1] * 21267 + lin[2] * 71515 + lin[3] * 7218) \div 1000,
             (lin[1] * 1933 + lin[2] * 11919 + lin[3] * 95030) \div 1000>> :
           lin \in {LinearRgb(ToFP(c))} })

\* Math.round(Math.max(0, Math.min(1, companded v)) * 255) for a linear value
\* v * 10^-6: the companding inverts the linearisation, so the channel is found in
\* its table
Compand(v) ==
    IF v <= 0 THEN 0
    ELSE IF v >= 1000000 THEN 255
    ELSE Only({ IF 2 * (v - SrgbLinearTable[k + 1] * 100)
                     >= (SrgbLinearTable[k + 2] - SrgbLinearTable[k + 1]) * 100
                THEN k + 1 ELSE k :
                k \in { CHOOSE k \in 0..254 :
                          /\ SrgbLinearTable[k + 1] * 100 <= v
                          /\ v < SrgbLinearTable[k + 2] * 100 } })

\* _xyzToRgb(x, y, z): NaN in any coordinate makes the three sums NaN, which the
\* comparisons, Math.min, Math.max and Math.round hand on
XyzToRgb(t) ==
    IF NaN \in {t[1], t[2], t[3]} THEN <<NaN, NaN, NaN>>
    ELSE <<Compand(MulDiv(t[1], 324045, 100000) - MulDiv(t[2], 153714, 100000)
                   - MulDiv(t[3], 49853, 100000)),
           Compand(MulDiv(t[2], 187601, 100000) + MulDiv(t[3], 4156, 100000)
                   - MulDiv(t[1], 96927, 100000)),
           Compand(MulDiv(t[1], 5564, 100000) - MulDiv(t[2], 20403, 100000)
                   + MulDiv(t[3], 105723, 100000))>>

\* upN = (4 * Xn) / (Xn + 15 * Yn + 3 * Zn), scaled by 10^6
UpN == 197840

\* vpN = (9 * Yn) / (Xn + 15 * Yn + 3 * Zn), scaled by 10^6
VpN == 468336

\* L of _rgbToLuv from Y * 10^6, scaled by 10^4
LuvL(y) ==
    IF y > 8856 THEN (116 * Cbrt5(y \div 100) - 1600000) \div 10 ELSE (9033 * y) \div 1000

\* _rgbToLuv(r, g, b): <<L, u, v>> * 10^4; up and vp are 0 when denom is 0
RgbToLuv(c) ==
    Only({ Only({ Only({ <<l, MulDiv(13 * l, p[1] - UpN, 1000000),
                              MulDiv(13 * l, p[2] - VpN, 1000000)>> :
                         p \in { IF denom = 0 THEN <<0, 0>>
                                 ELSE <<MulDiv(4 * xyz[1], 1000000, denom),
                                        MulDiv(9 * xyz[2], 1000000, denom)>> } }) :
                  denom \in {xyz[1] + 15 * xyz[2] + 3 * xyz[3]}, l \in {LuvL(xyz[2])} }) :
           xyz \in {RgbToXyz(c)} })

\* Y of _luvToRgb from l * 10^4, scaled by 10^6
LuvY(l) ==
    IF l > 80000
    THEN Only({ MulDiv(MulDiv(f, f, 100000), f, 10000) : f \in {((l + 160000) * 10) \div 116} })
    ELSE (l * 1000) \div 9033

\* _luvToRgb(l, u, v).  At l = 0 the quotients u / (13 * l) and v / (13 * l) are
\* 0 / 0 = NaN, or an infinity whose quotient in X and Z is NaN again, so X and Z
\* are NaN whatever u and v are.
LuvToRgb(t) ==
    IF t[1] = 0 THEN XyzToRgb(<<NaN, LuvY(t[1]), NaN>>)
    ELSE Only({ Only({ XyzToRgb(<<MulDiv(9 * y, p[1], 4 * p[2]), y,
                                  MulDiv(y, 12000000 - 3 * p[1] - 20 * p[2], 4 * p[2])>>) :
                       p \in {<<MulDiv(t[2], 1000000, 13 * t[1]) + UpN,
                                MulDiv(t[3], 1000000, 13 * t[1]) + VpN>>} }) :
                y \in {LuvY(t[1])} })

\* _rgbToYuv(r, g, b): <<Y, U, V>> * 10^5
RgbToYuv(c) ==
    <<29900 * c[1] + 58700 * c[2] + 11400 * c[3],
      43600 * c[3] - 14713 * c[1] - 28886 * c[2],
      61500 * c[1] - 51499 * c[2] - 10001 * c[3]>>

\* Math.round(Math.max(0, Math.min(255, x))) for x * 10^-3
ClampRound(x) == RoundChannel(Max2(0, Min2(255000, x)), 1000)

\* _yuvToRgb(y, u, v)
YuvToRgb(t) ==
    Only({ <<ClampRound(y[1] + MulDiv(y[3], 113983, 100000)),
             ClampRound(y[1] - MulDiv(y[2], 39465, 100000) - MulDiv(y[3], 58060, 100000)),
             ClampRound(y[1] + MulDiv(y[2], 203211, 100000))>> :
           y \in {[i \in 1..3 |-> TruncDiv(t[i], 100)]} })

\* Channel values of the colours converted: the ends of the range, their
\* neighbours and the middle
ConvertChannels == {0, 1, 128, 254, 255}

\* The colours converted
ConvertColours == (ConvertChannels \X ConvertChannels \X ConvertChannels)
                      \cup {Red, Gray, <<120, 70, 70>>, <<30, 200, 30>>}

\* _hsvToRgb(..._rgbToHsv(r, g, b))
HsvRoundTrip ==
    /\ call = NoCall
    /\ \E c \in ConvertColours :
         /\ call' = [op |-> "convert", space |-> "HSV", rgb |-> c]
         /\ ret' = HsvToRgb(RgbToHsv(ToFP(c)))
    /\ UNCHANGED <<canvas, colorCache, labCache, ditherBuffers, pipeline>>

\* _hslToRgb(..._rgbToHsl(r, g, b))
HslRoundTrip ==
    /\ call = NoCall
    /\ \E c \in ConvertColours :
         /\ call' = [op |-> "convert", space |-> "HSL", rgb |-> c]
         /\ ret' = HslToRgb(RgbToHsl(c))
    /\ UNCHANGED <<canvas, colorCache, labCache, ditherBuffers, pipeline>>

\* _xyzToRgb(..._rgbToXyz(r, g, b))
XyzRoundTrip ==
    /\ call = NoCall
    /\ \E c \in ConvertColours :
         /\ call' = [op |-> "convert", space |-> "XYZ", rgb |-> c]
         /\ ret' = XyzToRgb(RgbToXyz(c))
    /\ UNCHANGED <<canvas, colorCache, labCache, ditherBuffers, pipeline>>

\* _luvToRgb(..._rgbToLuv(r, g, b))
LuvRoundTrip ==
    /\ call = NoCall
    /\ \E c \in ConvertColours :
         /\ call' = [op |-> "convert", space |-> "LUV", rgb |-> c]
         /\ ret' = LuvToRgb(RgbToLuv(c))
    /\ UNCHANGED <<canvas, colorCache, labCache, ditherBuffers, pipeline>>

\* _yuvToRgb(..._rgbToYuv(r, g, b))
YuvRoundTrip ==
    /\ call = NoCall
    /\ \E c \in ConvertColours :
         /\ call' = [op |-> "convert", space |-> "YUV", rgb |-> c]
         /\ ret' = YuvToRgb(RgbToYuv(c))
    /\ UNCHANGED <<canvas, colorCache, labCache, ditherBuffers, pipeline>>

NextConvert ==
    \/ HsvRoundTrip
    \/ HslRoundTrip
    \/ XyzRoundTrip
    \/ LuvRoundTrip
    \/ YuvRoundTrip

SpecConvert == Init /\ [][NextConvert]_vars

-----------------------------------------------------------------------------
(* Claims about the conversions *)

\* The triple returned is defined and within 1 per channel of the colour converted
IsWithinOne ==
    \A i \in 1..3 : ret[i] # NaN /\ Abs(ret[i] - call.rgb[i]) <= 1

\* C13: converting any RGB colour to a colour space and back yields a defined RGB
\* triple within 1 per channel of the input, black included
C13_RoundTripWithinOne ==
    call.op = "convert" => IsWithinOne

\* C13 away from black in LUV: every other round trip returns the colour itself
C13_RoundTripExactElsewhere ==
    (call.op = "convert" /\ ~(call.space = "LUV" /\ call.rgb = Black)) => ret = call.rgb

-----------------------------------------------------------------------------
(* Claims about block resampling *)

IsBlockCall ==
    call.op = "resampleImage" /\ call.method \in {"box", "median", "dominant"}
        /\ FactorIsInteger

\* The indices of srcData (in pixels, from 1) that the two inner loops read for
\* destination pixel q of the call
BlockReads(q) ==
    Only({ { yy * call.source.width + xx + 1 :
               yy \in b[3]..(b[4] - 1), xx \in b[1]..(b[2] - 1) } :
           b \in {BlockBounds(call.source, (q - 1) % call.dstW, (q - 1) \div call.dstW,
                              BlockFactor)} })

\* C21, first half: every source read of a block method is inside the source
C21_ReadsInsideSource ==
    IsBlockCall =>
        \A q \in 1..(call.dstW * call.dstH) :
            BlockReads(q) \subseteq 1..(call.source.width * call.source.height)

\* C21: block resampling reads only inside the source raster, and no destination
\* channel is computed by dividing by a pixel count of zero: every block the box
\* method averages holds at least one pixel
C21_NoReadOutsideNoEmptyBlock ==
    /\ C21_ReadsInsideSource
    /\ (IsBlockCall /\ call.method = "box") =>
          \A q \in 1..(call.dstW * call.dstH) : Len(CallBlock(q)) > 0

-----------------------------------------------------------------------------
(* Error diffusion pixel by pixel: the second loop of _applyErrorDiffusion,  *)
(* one iteration per step.  pipeline = [pc |-> "scan", idx] is the position  *)
(* of the loop and ret holds data, totalValid, the LAB memo and work while   *)
(* the loop runs.                                                           *)

\* A grey, a white (ineligible when white pixels are not painted) and a
\* translucent colour (ineligible when transparent pixels are not painted)
DiffusePixels == { <<100, 100, 100, 255>>, <<255, 255, 255, 255>>, <<90, 110, 100, 127>> }

\* A 3 x 3 raster, which every offset of every kernel reaches from some pixel:
\* greys around a white centre
DiffuseSquare ==
    [width |-> 3, height |-> 3,
     data |-> [i \in 1..9 |-> IF i = 5 THEN <<255, 255, 255, 255>>
                                       ELSE <<100, 100, 100, 255>>]]

DiffuseRasters == RastersOf(DiffusePixels, MaxPixels) \cup {DiffuseSquare}

\* loadFromBitmap of a raster to dither
LoadDiffuseRaster ==
    /\ canvas = NoCanvas
    /\ call = NoCall
    /\ \E img \in DiffuseRasters : LoadFromBitmap(img)
    /\ UNCHANGED <<pipeline, call, ret>>

\* width, height, eligible[] and the kernel of the running call
DiffusionOf(c) ==
    [width |-> c.width, height |-> c.height,
     eligible |-> [i \in 1..Len(c.imageData) |-> IsEligible(c.imageData[i], c.options)],
     kernel |-> DitherKernel(c.method)]

\* _applyErrorDiffusion up to its second loop: the buffers are taken and the
\* first loop fills eligible[] and work[]
StartDiffusion ==
    /\ canvas # NoCanvas
    /\ call = NoCall
    /\ \E method \in ErrorDiffusionMethods, pt \in BOOLEAN, pw \in BOOLEAN :
         /\ call' = [op |-> "_applyErrorDiffusion", imageData |-> canvas.data,
                     width |-> canvas.width, height |-> canvas.height,
                     palette |-> BlackWhite, method |-> method,
                     options |-> QuantOptions("rgb", FALSE, pt, pw)]
         /\ ret' = ErrorInit(labCache, canvas.data, QuantOptions("rgb", FALSE, pt, pw))
    /\ ditherBuffers' = EnsureDitherBuffers(ditherBuffers, "floyd",
                                            canvas.width * canvas.height)
    /\ pipeline' = [pc |-> "scan", idx |-> 1]
    /\ UNCHANGED <<canvas, colorCache, labCache>>

\* One iteration of the second loop, on pixel pipeline.idx
ScanPixel ==
    /\ pipeline.pc = "scan"
    /\ pipeline.idx <= call.width * call.height
    /\ ret' = ErrorStep(ret, pipeline.idx, call.palette, call.options, DiffusionOf(call))
    /\ pipeline' = [pipeline EXCEPT !.idx = @ + 1]
    /\ UNCHANGED <<canvas, colorCache, labCache, ditherBuffers, call>>

\* return { data, totalValidPixels: totalValid }
FinishDiffusion ==
    /\ pipeline.pc = "scan"
    /\ pipeline.idx > call.width * call.height
    /\ ret' = [data |-> ret.data, totalValidPixels |-> ret.totalValid]
    /\ labCache' = ret.cache
    /\ pipeline' = Idle
    /\ UNCHANGED <<canvas, colorCache, ditherBuffers, call>>

NextDiffuse == LoadDiffuseRaster \/ StartDiffusion \/ ScanPixel \/ FinishDiffusion

SpecDiffuse == Init /\ [][NextDiffuse]_vars

-----------------------------------------------------------------------------
(* Claims about error diffusion *)

\* The step taken is an iteration of the second loop
IsScanStep == pipeline.pc = "scan" /\ pipeline'.pc = "scan"

\* The kernel offsets that lead from pixel idx to pixel j inside the raster
OffsetsTo(idx, j) ==
    { k \in 1..Len(DitherKernel(call.method).offsets) :
        LET o == DitherKernel(call.method).offsets[k]
            nx == ((idx - 1) % call.width) + o[1]
            ny == ((idx - 1) \div call.width) + o[2]
        IN /\ nx >= 0 /\ nx < call.width /\ ny >= 0 /\ ny < call.height
           /\ ny * call.width + nx + 1 = j }

\* The error of the iteration's pixel: its accumulated value minus the colour written
StepError == [c \in 1..3 |-> ret.work[pipeline.idx][c] - ret'.data[pipeline.idx][c] * FP]

\* work[j] with the kernel fraction weight / divisor of the error added, clamped
WithShare(j, k) ==
    [c \in 1..3 |->
        Min2(255 * FP,
             Max2(0, ret.work[j][c]
                     + TruncDiv(StepError[c] * DitherKernel(call.method).offsets[k][3],
                                DitherKernel(call.method).divisor)))]

\* The pixel of the iteration is painted with a palette colour
IsPainted ==
    /\ IsEligible(call.imageData[pipeline.idx], call.options)
    /\ ~(call.options.paintTransparentPixels
           /\ call.imageData[pipeline.idx][4] < call.options.transparencyThreshold)

\* C22: the share of a pixel's error destined for an out-of-bounds or ineligible
\* neighbour is dropped: ineligible pixels keep their accumulated values, and every
\* eligible neighbour inside the raster receives exactly its kernel fraction of the
\* error, whatever became of the other shares
C22_SharesDroppedNotRedistributed ==
    [][IsScanStep =>
         \A j \in 1..Len(call.imageData) :
            /\ ~IsEligible(call.imageData[j], call.options) => ret'.work[j] = ret.work[j]
            /\ (IsEligible(call.imageData[j], call.options) /\ IsPainted)
                  => \/ OffsetsTo(pipeline.idx, j) = {} /\ ret'.work[j] = ret.work[j]
                     \/ \E k \in OffsetsTo(pipeline.idx, j) : ret'.work[j] = WithShare(j, k)]_vars

\* An iteration has diffused a non-zero error from a pixel with an ineligible
\* neighbour and an eligible one in the kernel's reach
C22_Witness ==
    /\ pipeline.pc = "scan"
    /\ pipeline.idx > 1
    /\ \E i, j \in 1..Len(call.imageData) :
          /\ ~IsEligible(call.imageData[i], call.options)
          /\ IsEligible(call.imageData[j], call.options)
          /\ OffsetsTo(1, i) # {} /\ OffsetsTo(1, j) # {}
          /\ IsEligible(call.imageData[1], call.options)
          /\ ret.work[j] # ToFP(Rgb(call.imageData[j]))

\* C23: error diffusion visits the pixels once each in row-major order, and
\* processing a pixel changes the accumulated values of strictly later pixels only
\* and the output of that pixel only
C23_RasterScanDependency ==
    [][IsScanStep =>
         /\ pipeline'.idx = pipeline.idx + 1
         /\ \A j \in 1..Len(call.imageData) :
               /\ j <= pipeline.idx => ret'.work[j] = ret.work[j]
               /\ j # pipeline.idx => ret'.data[j] = ret.data[j]]_vars

\* The scan has reached the end of a raster of several pixels in which error was
\* passed on
C23_Witness ==
    /\ pipeline.pc = "scan"
    /\ pipeline.idx = call.width * call.height + 1
    /\ call.width * call.height >= 3
    /\ \E j \in 2..Len(call.imageData) : ret.work[j] # ToFP(Rgb(call.imageData[j]))

-----------------------------------------------------------------------------
(* The mode filter on a loaded canvas: one modeFilter call per behaviour *)

\* The opaque pixels of the window of (x, y) in the order the two window loops
\* visit them: dy outside, dx inside, from -left to right, cells outside the
\* raster and cells with alpha < 128 skipped; x, y count from 0
ModeWindow(imageData, width, height, x, y, n) ==
    LET left == (n - 1) \div 2
        cells == [k \in 1..(n * n) |->
                    <<x - left + ((k - 1) % n), y - left + ((k - 1) \div n)>>]
        Voting(c) == /\ c[1] >= 0 /\ c[1] < width
                     /\ c[2] >= 0 /\ c[2] < height
                     /\ imageData[c[2] * width + c[1] + 1][4] >= 128
        voters == SelectSeq(cells, Voting)
    IN  [k \in 1..Len(voters) |-> imageData[voters[k][2] * width + voters[k][1] + 1]]

\* counts[key] after the k-th voter was counted
ModeCountAt(voters, k) ==
    Cardinality({ m \in 1..k : ColorKey(voters[m]) = ColorKey(voters[k]) })

\* best and bR, bG, bB after the first k voters: if (c > best) { best = c; ... }
RECURSIVE ModeBest(_, _, _)
ModeBest(voters, k, own) ==
    IF k = 0 THEN [best |-> 0, rgb |-> Rgb(own)]
    ELSE Only({ IF ModeCountAt(voters, k) > before.best
                THEN [best |-> ModeCountAt(voters, k), rgb |-> Rgb(voters[k])]
                ELSE before : before \in {ModeBest(voters, k - 1, own)} })

\* applyModeFilter(imageData, width, height, radius)
ApplyModeFilter(imageData, width, height, radius) ==
    IF radius <= 0 \/ width = 0 \/ height = 0 \/ radius <= 1 THEN imageData
    ELSE [i \in 1..(width * height) |->
            IF imageData[i][4] < 128 THEN imageData[i]
            ELSE Only({ <<b.rgb[1], b.rgb[2], b.rgb[3], 255>> :
                        b \in { Only({ ModeBest(voters, Len(voters), imageData[i]) :
                                  voters \in {ModeWindow(imageData, width, height,
                                                (i - 1) % width, (i - 1) \div width,
                                                radius)} }) } })]

\* Two opaque colours, one of them with alpha under 255, and a transparent pixel
ModePixels == { <<200, 30, 30, 255>>, <<30, 30, 200, 200>>, <<30, 200, 30, 100>> }

ModeRasters == RastersOf(ModePixels, MaxPixels)

\* Window sizes: 0 and 1 leave the raster alone, 2 and 3 vote
ModeRadii == 0..3

\* loadFromBitmap of a raster to filter
LoadModeRaster ==
    /\ canvas = NoCanvas
    /\ call = NoCall
    /\ \E img \in ModeRasters : LoadFromBitmap(img)
    /\ UNCHANGED <<pipeline, call, ret>>

\* modeFilter(radius): getPixelData, applyModeFilter, setPixelData
ModeFilter ==
    /\ canvas # NoCanvas
    /\ call = NoCall
    /\ \E radius \in ModeRadii :
         /\ call' = [op |-> "applyModeFilter", imageData |-> canvas.data,
                     width |-> canvas.width, height |-> canvas.height,
                     radius |-> radius]
         /\ ret' = ApplyModeFilter(canvas.data, canvas.width, canvas.height, radius)
         /\ canvas' = [canvas EXCEPT !.data = ret']
    /\ UNCHANGED <<colorCache, labCache, ditherBuffers, pipeline>>

NextModeFilter == LoadModeRaster \/ ModeFilter

SpecModeFilter == Init /\ [][NextModeFilter]_vars

-----------------------------------------------------------------------------
(* Claims about the mode filter *)

IsModeCall == call.op = "applyModeFilter" /\ call.radius >= 2

\* The voters of pixel i of the call
ModeVoters(i) ==
    ModeWindow(call.imageData, call.width, call.height,
               (i - 1) % call.width, (i - 1) \div call.width, call.radius)

\* How many voters of pixel i carry the triple rgb
ModeVotes(i, rgb) ==
    Cardinality({ k \in 1..Len(ModeVoters(i)) : Rgb(ModeVoters(i)[k]) = rgb })

\* The triples with the highest count in the window of pixel i
ModeWinners(i) ==
    { Rgb(ModeVoters(i)[k]) : k \in
        { k \in 1..Len(ModeVoters(i)) :
            \A m \in 1..Len(ModeVoters(i)) :
                ModeVotes(i, Rgb(ModeVoters(i)[m])) <= ModeVotes(i, Rgb(ModeVoters(i)[k])) } }

\* The place of the first voter with the triple rgb
ModeFirstVisit(i, rgb) ==
    CHOOSE k \in 1..Len(ModeVoters(i)) :
        /\ Rgb(ModeVoters(i)[k]) = rgb
        /\ \A m \in 1..(k - 1) : Rgb(ModeVoters(i)[m]) # rgb

\* C24, first and last part: an opaque pixel gets a triple with the highest count
\* among the opaque pixels of its window, and a transparent pixel is copied
C24_MajorityOfOpaqueWindow ==
    IsModeCall =>
        \A i \in 1..Len(ret) :
            IF call.imageData[i][4] < 128 THEN ret[i] = call.imageData[i]
            ELSE Rgb(ret[i]) \in ModeWinners(i)

\* C24: applyModeFilter outputs for each opaque pixel the triple with the highest
\* count among the opaque pixels of its N x N window, of several tied triples the
\* one visited first in window scan order, and copies transparent pixels
C24_MajorityTiesToFirstVisited ==
    IsModeCall =>
        \A i \in 1..Len(ret) :
            IF call.imageData[i][4] < 128 THEN ret[i] = call.imageData[i]
            ELSE /\ Rgb(ret[i]) \in ModeWinners(i)
                 /\ \A rgb \in ModeWinners(i) :
                        ModeFirstVisit(i, Rgb(ret[i])) <= ModeFirstVisit(i, rgb)

-----------------------------------------------------------------------------
(* Dilation of an edge mask: one _dilateEdges call per behaviour, on the mask *)
(* that _detectEdges hands to applyEdgeOverlay (255 on an edge, 0 elsewhere)  *)

\* As many passes as the clamped thickness
DilationCountNotLessOne(thickness) ==
    Max2(1, Min2(6, IF thickness = 0 THEN 1 ELSE thickness))

\* t - 1 with t = Math.max(1, Math.min(6, thickness || 1))
DilationCount(thickness) ==
    Max2(1, Min2(6, IF thickness = 0 THEN 1 ELSE thickness)) - 1

\* One pass of the k loop: tmp.fill(0), the y and x loops, dilated.set(tmp)
DilatePass(dilated, width, height) ==
    [i \in 1..(width * height) |->
        LET x == (i - 1) % width
            y == (i - 1) \div width
        IN  IF dilated[i] > 128 THEN 255
            ELSE IF \/ (x > 0 /\ dilated[i - 1] > 128)
                    \/ (x + 1 < width /\ dilated[i + 1] > 128)
                    \/ (y > 0 /\ dilated[i - width] > 128)
                    \/ (y + 1 < height /\ dilated[i + width] > 128)
                 THEN 255
                 ELSE 0]

\* The k loop: count passes over dilated
RECURSIVE DilatePasses(_, _, _, _)
DilatePasses(dilated, width, height, count) ==
    IF count <= 0 THEN dilated
    ELSE DilatePasses(DilatePass(dilated, width, height), width, height, count - 1)

\* _dilateEdges(edges, width, height, thickness)
DilateEdges(edges, width, height, thickness) ==
    IF DilationCount(thickness) <= 0 THEN edges
    ELSE DilatePasses(edges, width, height, DilationCount(thickness))

\* Length of the one-row and one-column masks: one pixel more than six passes reach
MaskRow == 7

\* Largest thickness handed to _dilateEdges
MaxThickness == 8

\* Rows and columns of MaskRow pixels and 3 x 3 squares
MaskSizes == { <<MaskRow, 1>>, <<1, MaskRow>>, <<3, 3>> }

EdgeMasks ==
    UNION { { [width |-> s[1], height |-> s[2], data |-> d] :
              d \in [1..(s[1] * s[2]) -> {0, 255}] } : s \in MaskSizes }

\* this._dilateEdges(edges, width, height, thickness) of applyEdgeOverlay
DilateEdgesCall ==
    /\ call = NoCall
    /\ \E edges \in EdgeMasks, thickness \in 0..MaxThickness :
         /\ call' = [op |-> "_dilateEdges", edges |-> edges.data,
                     width |-> edges.width, height |-> edges.height,
                     thickness |-> thickness]
         /\ ret' = DilateEdges(edges.data, edges.width, edges.height, thickness)
    /\ UNCHANGED <<canvas, colorCache, labCache, ditherBuffers, pipeline>>

NextDilate == DilateEdgesCall

SpecDilate == Init /\ [][NextDilate]_vars

-----------------------------------------------------------------------------
(* Claims about edge dilation *)

IsDilateCall == call.op = "_dilateEdges"

\* The pixels of a mask that are set
MaskOf(mask) == { i \in 1..Len(mask) : mask[i] > 128 }

\* The pixels that n passes of 4-neighbour dilation of the call's mask set: those
\* within n steps along rows and columns of a set pixel
DilatedBy(n) ==
    { i \in 1..Len(call.edges) :
        \E j \in MaskOf(call.edges) :
            Abs(((i - 1) % call.width) - ((j - 1) % call.width))
              + Abs(((i - 1) \div call.width) - ((j - 1) \div call.width)) <= n }

\* C25 as the code has it: the number of passes is the thickness, at least 1 and
\* at most 6, less one; a thickness of 6 or more gives the mask of 5 passes
C25_ThicknessLessOnePasses ==
    IsDilateCall =>
        /\ MaskOf(ret) = DilatedBy(Max2(1, Min2(6, call.thickness)) - 1)
        /\ call.thickness >= 6 => MaskOf(ret) = DilatedBy(5)

\* A thickness over 6 on a mask where the fifth pass still adds a pixel and a
\* sixth pass would add one more
C25_Witness ==
    /\ IsDilateCall
    /\ call.thickness > 6
    /\ DilatedBy(4) # DilatedBy(5)
    /\ DilatedBy(5) # DilatedBy(6)
    /\ MaskOf(ret) = DilatedBy(5)

\* C25: the number of dilation passes is set by the thickness and clamped to 6: a
\* thickness of 6 or more gives the mask of 6 passes
C25_SixPassesFromThicknessSix ==
    (IsDilateCall /\ call.thickness >= 6) => MaskOf(ret) = DilatedBy(6)

-----------------------------------------------------------------------------
(* Erosion on a loaded canvas: one erode call per behaviour *)

\* One iteration: temp is the raster at its start; only the pixels off the
\* raster's border are visited (y from 1 to height - 2, x from 1 to width - 2)
ErodePass(temp, width, height) ==
    [i \in 1..(width * height) |->
        LET x == (i - 1) % width
            y == (i - 1) \div width
            hasTransparentNeighbor ==
                \E dy \in -1..1, dx \in -1..1 :
                    temp[(y + dy) * width + (x + dx) + 1][4] < 128
        IN  IF /\ x >= 1 /\ x < width - 1
               /\ y >= 1 /\ y < height - 1
               /\ hasTransparentNeighbor
               /\ temp[i][4] > 128
            THEN <<temp[i][1], temp[i][2], temp[i][3], 0>>
            ELSE temp[i]]

\* The iteration loop
RECURSIVE ErodePasses(_, _, _, _)
ErodePasses(result, width, height, amount) ==
    IF amount <= 0 THEN result
    ELSE ErodePasses(ErodePass(result, width, height), width, height, amount - 1)

\* erodeEdges(imageData, width, height, amount)
ErodeEdges(imageData, width, height, amount) ==
    IF amount <= 0 THEN imageData
    ELSE ErodePasses(imageData, width, height, amount)

\* An opaque pixel, one with alpha at the threshold, and a transparent one
ErodePixels == { <<200, 30, 30, 255>>, <<30, 30, 200, 128>>, <<30, 200, 30, 0>> }

\* The 3 x 3 rasters, the smallest with a pixel off the border
ErodeSquares == { [width |-> 3, height |-> 3, data |-> d] : d \in [1..9 -> ErodePixels] }

ErodeRasters == RastersOf(ErodePixels, MaxPixels) \cup ErodeSquares

\* Largest amount handed to erode
MaxErode == 2

\* loadFromBitmap of a raster to erode
LoadErodeRaster ==
    /\ canvas = NoCanvas
    /\ call = NoCall
    /\ \E img \in ErodeRasters : LoadFromBitmap(img)
    /\ UNCHANGED <<pipeline, call, ret>>

\* erode(amount): getPixelData, erodeEdges, setPixelData
Erode ==
    /\ canvas # NoCanvas
    /\ call = NoCall
    /\ \E amount \in 0..MaxErode :
         /\ call' = [op |-> "erodeEdges", imageData |-> canvas.data,
                     width |-> canvas.width, height |-> canvas.height,
                     amount |-> amount]
         /\ ret' = ErodeEdges(canvas.data, canvas.width, canvas.height, amount)
         /\ canvas' = [canvas EXCEPT !.data = ret']
    /\ UNCHANGED <<colorCache, labCache, ditherBuffers, pipeline>>

NextErode == LoadErodeRaster \/ Erode

SpecErode == Init /\ [][NextErode]_vars

-----------------------------------------------------------------------------
(* Claims about erosion *)

IsErodeCall == call.op = "erodeEdges"

\* The pixels of the call's raster next to pixel i, diagonals included
EightNeighbours(i) ==
    { j \in 1..Len(call.imageData) :
        /\ j # i
        /\ Abs(((i - 1) % call.width) - ((j - 1) % call.width)) <= 1
        /\ Abs(((i - 1) \div call.width) - ((j - 1) \div call.width)) <= 1 }

\* One iteration as stated: an opaque pixel with a transparent pixel among its 8
\* neighbours becomes transparent, every other pixel stays
ErosionOf(data) ==
    [i \in 1..Len(data) |->
        IF data[i][4] >= 128 /\ \E j \in EightNeighbours(i) : data[j][4] < 128
        THEN <<data[i][1], data[i][2], data[i][3], 0>>
        ELSE data[i]]

RECURSIVE ErosionsOf(_, _)
ErosionsOf(data, n) == IF n <= 0 THEN data ELSE ErosionsOf(ErosionOf(data), n - 1)

\* C26, the part the loops keep: RGB channels never change, and a pixel's alpha
\* changes only to 0 and only where the stated iterations change it as well
C26_ErodesOnlyNextToTransparent ==
    IsErodeCall =>
        \A i \in 1..Len(ret) :
            /\ Rgb(ret[i]) = Rgb(call.imageData[i])
            /\ \/ ret[i][4] = call.imageData[i][4]
               \/ ret[i][4] = 0 /\ ErosionsOf(call.imageData, call.amount)[i][4] = 0

\* C26: in each iteration every opaque pixel, on the raster's border or not, with
\* a transparent pixel among its 8 neighbours at the start of the iteration
\* becomes transparent, every other pixel keeps its alpha, and RGB never changes
C26_EveryPixelNextToTransparentErodes ==
    IsErodeCall => ret = ErosionsOf(call.imageData, call.amount)

-----------------------------------------------------------------------------
(* resolveColor calls on one processor with the palette, the white threshold *)
(* and the mode changing from call to call                                  *)

\* Palettes: white and red, and black and a near-white
CachePalettes ==
    { << [id |-> 5, rgb |-> White], [id |-> 1, rgb |-> Red] >>,
      << [id |-> 2, rgb |-> Black], [id |-> 7, rgb |-> <<240, 240, 240>>] >> }

\* A white and a grey
CacheTargets == {White, Gray}

\* The default threshold and one above the near-white
CacheWhiteThresholds == {WHITE_THRESHOLD, 250}

\* resolveColor(targetRgb, availableColors, {exactMatch, algorithm, whiteThreshold})
ResolveCached ==
    /\ \E t \in CacheTargets, avail \in CachePalettes, ex \in BOOLEAN,
          algorithm \in {"lab"}, wt \in CacheWhiteThresholds :
         LET r == ResolveColor(colorCache, labCache, t, avail, ex, algorithm, FALSE,
                               DefaultChromaPenaltyWeight, wt)
         IN /\ call' = [op |-> "resolveColor", target |-> t, availableColors |-> avail,
                        exactMatch |-> ex, algorithm |-> algorithm,
                        whiteThreshold |-> wt,
                        hit |-> CacheKey(t, algorithm, FALSE,
                                         DefaultChromaPenaltyWeight, ex)
                                    \in DOMAIN colorCache]
            /\ ret' = r.result
            /\ colorCache' = r.colorCache
            /\ labCache' = r.labCache
    /\ UNCHANGED <<canvas, ditherBuffers, pipeline>>

\* clearCaches()
ClearCachesCall ==
    /\ colorCache # EmptyMap
    /\ ClearCaches
    /\ call' = [op |-> "clearCaches"]
    /\ ret' = Undefined
    /\ UNCHANGED <<canvas, ditherBuffers, pipeline>>

NextCache == ResolveCached \/ ClearCachesCall

SpecCache == Init /\ [][NextCache]_vars

-----------------------------------------------------------------------------
(* Claims about the memo cache *)

IsCachedResolve == call.op = "resolveColor" /\ "hit" \in DOMAIN call

\* What the call returns on a processor whose caches are empty
ResolveOnEmptyCache ==
    ResolveColor(EmptyMap, EmptyMap, call.target, call.availableColors, call.exactMatch,
                 call.algorithm, FALSE, DefaultChromaPenaltyWeight,
                 call.whiteThreshold).result

\* C27, the part the key provides: a call whose key was not in the cache returns
\* what it returns on a processor with an empty cache
C27_MissReturnsFreshAnswer ==
    (IsCachedResolve /\ ~call.hit) => ret = ResolveOnEmptyCache

\* C27: the memo cache is transparent: in any sequence of resolveColor calls on
\* one processor, with differing palettes, white thresholds and modes, each call
\* returns the id and rgb it would return on a processor with an empty cache
C27_CacheIsTransparent ==
    IsCachedResolve => ret = ResolveOnEmptyCache

-----------------------------------------------------------------------------
(* The batch placement flow of the page script.  Here pipeline holds the    *)
(* script's state object, call the placeNextBatch invocations that wait at  *)
(* an await.                                                                *)
(*                                                                         *)
(* allPixels is the template as one flag per pixel: TRUE when the map       *)
(* already shows the pixel's colour (isPixelAlreadyCorrect).  placedPixels  *)
(* is the length of state.placedPixels.  processedInBatch is history: the   *)
(* processedCount of the invocation that stored pendingBatchCount.          *)
(* state.currentCharges is read only by the invocation that has just        *)
(* fetched it, where it is count.                                           *)

\* Longest template
MaxTemplate == 2

\* Most charges the server reports
MaxCharges == 4

\* Confirmations stop when currentBatchIndex would pass this
MaxIndex == 4

\* Most placeNextBatch invocations waiting at an await
MaxClicks == 2

\* The loop sleeps after every 100 pixels (processedCount % 100 === 0); the
\* interval in the model
SleepEvery == 1

\* What the server reports: no charge, the two kept in reserve, and the most
ChargeCounts == {0, 2, MaxCharges}

Templates == UNION { [1..n -> BOOLEAN] : n \in 0..MaxTemplate }

\* The state object as created
InitialState ==
    [imageLoaded |-> FALSE, anchorSet |-> FALSE, allPixels |-> <<>>,
     placedPixels |-> 0, currentBatchIndex |-> 0, pendingBatchCount |-> 0,
     pendingSkippedCount |-> 0, isPlacing |-> FALSE, draftOverlayEnabled |-> FALSE,
     processedInBatch |-> 0]

InitPlacement ==
    /\ canvas = NoCanvas
    /\ colorCache = EmptyMap
    /\ labCache = EmptyMap
    /\ ditherBuffers = 0
    /\ pipeline = InitialState
    /\ call = <<>>
    /\ ret = <<>>

\* The sequence without its k-th element
RemoveAt(seq, k) == [j \in 1..(Len(seq) - 1) |-> IF j < k THEN seq[j] ELSE seq[j + 1]]

\* buildPixelList() after an upload or after Apply in the processing panel
BuildPixelList ==
    /\ \E pixels \in Templates :
         pipeline' = [pipeline EXCEPT !.imageLoaded = TRUE, !.allPixels = pixels,
                                      !.currentBatchIndex = 0, !.placedPixels = 0]
    /\ UNCHANGED <<canvas, colorCache, labCache, ditherBuffers, call, ret>>

\* The anchor capture: state.anchorSet = true
CaptureAnchor ==
    /\ ~pipeline.anchorSet
    /\ pipeline' = [pipeline EXCEPT !.anchorSet = TRUE]
    /\ UNCHANGED <<canvas, colorCache, labCache, ditherBuffers, call, ret>>

\* PatPlacerStorage.deserializeState(data) of a project the script saved:
\* placedCount was a currentBatchIndex within the saved pixels
DeserializeState ==
    /\ \E pixels \in Templates, anchor \in BOOLEAN, bitmap \in BOOLEAN :
         \E placedCount \in 0..Len(pixels) :
            pipeline' = [pipeline EXCEPT
                            !.anchorSet = IF anchor THEN FALSE ELSE @,
                            !.allPixels = pixels,
                            !.currentBatchIndex = placedCount,
                            !.placedPixels = Min2(placedCount, Len(pixels)),
                            !.imageLoaded = IF bitmap THEN TRUE ELSE @]
    /\ UNCHANGED <<canvas, colorCache, labCache, ditherBuffers, call, ret>>

\* A click on the place button: placeNextBatch up to await fetchCharges()
ClickPlace ==
    /\ Len(call) < MaxClicks
    /\ call' = IF ~pipeline.imageLoaded \/ ~pipeline.anchorSet
               THEN call
               ELSE Append(call, [pc |-> "fetchCharges"])
    /\ UNCHANGED <<canvas, colorCache, labCache, ditherBuffers, pipeline, ret>>

\* The pre-scan: scanIndex and the indexes to skip, from batchStart on, until
\* availableCharges pixels are to be placed or the template ends
RECURSIVE PreScan(_, _, _, _, _)
PreScan(allPixels, availableCharges, scanIndex, toPlace, skip) ==
    IF toPlace < availableCharges /\ scanIndex < Len(allPixels)
    THEN IF allPixels[scanIndex + 1]
         THEN PreScan(allPixels, availableCharges, scanIndex + 1, toPlace,
                      skip \cup {scanIndex})
         ELSE PreScan(allPixels, availableCharges, scanIndex + 1, toPlace + 1, skip)
    ELSE [scanIndex |-> scanIndex, skip |-> skip]

\* The placement loop from frame f on until it sleeps, ends or throws: st is the
\* state object; placeDraft of a pixel the template no longer has reads a
\* property of undefined
RECURSIVE RunLoop(_, _)
RunLoop(st, f) ==
    IF ~(f.i < f.scanIndex /\ st.isPlacing)
    THEN [state |-> st, frame |-> f, outcome |-> "done"]
    ELSE IF f.i \notin f.skip /\ f.i >= Len(st.allPixels)
    THEN [state |-> st, frame |-> f, outcome |-> "throw"]
    ELSE LET st1 == IF f.i \in f.skip THEN st
                    ELSE [st EXCEPT !.placedPixels = @ + 1]
             f1 == [f EXCEPT !.i = @ + 1, !.processedCount = @ + 1]
         IN  IF (f1.processedCount % SleepEvery) = 0
             THEN [state |-> st1, frame |-> [f1 EXCEPT !.pc = "sleep"],
                   outcome |-> "sleep"]
             ELSE RunLoop(st1, f1)

\* After the loop: the pending counts are stored, isPlacing is cleared, and the
\* draft overlay is switched on when drafts were placed
AfterLoop(st, f) ==
    [st EXCEPT !.pendingBatchCount = f.scanIndex - f.batchStart,
               !.pendingSkippedCount = Cardinality(f.skip),
               !.processedInBatch = f.processedCount,
               !.isPlacing = FALSE,
               !.draftOverlayEnabled = IF st.placedPixels > 0 THEN TRUE ELSE @]

\* The k-th invocation goes on with the loop outcome r
Continue(k, r) ==
    IF r.outcome = "sleep"
    THEN /\ pipeline' = r.state
         /\ call' = [call EXCEPT ![k] = r.frame]
         /\ UNCHANGED ret
    ELSE IF r.outcome = "throw"
    THEN /\ pipeline' = r.state
         /\ call' = RemoveAt(call, k)
         /\ UNCHANGED ret
    ELSE /\ pipeline' = AfterLoop(r.state, r.frame)
         /\ call' = [call EXCEPT ![k] = [pc |-> "refreshCharges"]]
         /\ UNCHANGED ret

\* fetchCharges() of the k-th invocation answers with count charges; the
\* invocation runs on to its next await or return.  draftMap is whether
\* findDraftMap() finds the map
FetchedCharges(k) ==
    /\ k \in 1..Len(call)
    /\ call[k].pc = "fetchCharges"
    /\ \E count \in ChargeCounts, draftMap \in BOOLEAN :
         LET st == pipeline
             availableCharges == Max2(0, count - 2)
             scan == PreScan(st.allPixels, availableCharges, st.currentBatchIndex, 0, {})
             frame == [pc |-> "loop", batchStart |-> st.currentBatchIndex,
                       scanIndex |-> scan.scanIndex, skip |-> scan.skip,
                       i |-> st.currentBatchIndex, processedCount |-> 0]
             Return(s, status) ==
                 /\ pipeline' = s
                 /\ call' = RemoveAt(call, k)
                 /\ UNCHANGED ret
         IN  IF Len(st.allPixels) - st.currentBatchIndex <= 0
             THEN Return(st, "All pixels already placed!")
             ELSE IF count <= 0
             THEN Return(st, "No charges available. Wait for cooldown.")
             ELSE IF st.currentBatchIndex > 0 /\ ~draftMap
             THEN Return(st, "Place one manual draft to sync, then try again.")
             ELSE IF st.isPlacing
             THEN Return([st EXCEPT !.isPlacing = FALSE], "Placement stopped")
             ELSE IF availableCharges <= 0
             THEN Return(st, "Not enough charges (need at least 3)")
             ELSE IF scan.scanIndex - st.currentBatchIndex <= 0
             THEN Return(st, "No pixels to process in this range")
             ELSE Continue(k, RunLoop([st EXCEPT !.isPlacing = TRUE, !.placedPixels = 0],
                                      frame))
    /\ UNCHANGED <<canvas, colorCache, labCache, ditherBuffers>>

\* sleep(10) of the k-th invocation is over: the loop goes on
Slept(k) ==
    /\ k \in 1..Len(call)
    /\ call[k].pc = "sleep"
    /\ Continue(k, RunLoop(pipeline, [call[k] EXCEPT !.pc = "loop"]))
    /\ UNCHANGED <<canvas, colorCache, labCache, ditherBuffers>>

\* The last awaits of the k-th invocation: await fetchCharges()
RefreshedCharges(k) ==
    /\ k \in 1..Len(call)
    /\ call[k].pc = "refreshCharges"
    /\ call' = RemoveAt(call, k)
    /\ UNCHANGED <<canvas, colorCache, labCache, ditherBuffers, pipeline, ret>>

\* The interceptor sees the paint request POST /pixel/: the user confirmed
ConfirmPaint ==
    /\ pipeline.draftOverlayEnabled
    /\ pipeline.currentBatchIndex + pipeline.pendingBatchCount <= MaxIndex
    /\ pipeline' =
         IF pipeline.pendingBatchCount > 0
         THEN [pipeline EXCEPT !.draftOverlayEnabled = FALSE,
                               !.currentBatchIndex = @ + pipeline.pendingBatchCount,
                               !.pendingBatchCount = 0,
                               !.pendingSkippedCount = 0,
                               !.processedInBatch = 0,
                               !.placedPixels = 0]
         ELSE [pipeline EXCEPT !.draftOverlayEnabled = FALSE, !.placedPixels = 0]
    /\ UNCHANGED <<canvas, colorCache, labCache, ditherBuffers, call, ret>>

NextPlacement ==
    \/ BuildPixelList \/ CaptureAnchor \/ DeserializeState \/ ClickPlace
    \/ (\E k \in 1..MaxClicks : FetchedCharges(k))
    \/ (\E k \in 1..MaxClicks : Slept(k))
    \/ (\E k \in 1..MaxClicks : RefreshedCharges(k))
    \/ ConfirmPaint

SpecPlacement == InitPlacement /\ [][NextPlacement]_vars

-----------------------------------------------------------------------------
(* Claims about the placement flow *)

\* The step is the interceptor on a paint request that updates the progress
IsConfirmation ==
    /\ pipeline.draftOverlayEnabled /\ ~pipeline'.draftOverlayEnabled
    /\ pipeline.pendingBatchCount > 0

\* C28: under any interleaving of clicks on the place button and paint
\* confirmations, the amount currentBatchIndex advances by on a confirmation is
\* the number of template pixels drafted or skipped in that batch
C28_AdvanceEqualsProcessed ==
    [][IsConfirmation =>
          pipeline'.currentBatchIndex - pipeline.currentBatchIndex
              = pipeline.processedInBatch]_vars

\* C29: currentBatchIndex stays between 0 and the length of allPixels
C29_IndexWithinTemplate ==
    /\ 0 <= pipeline.currentBatchIndex
    /\ pipeline.currentBatchIndex <= Len(pipeline.allPixels)

-----------------------------------------------------------------------------
(* The extension: the content script's button and the background worker.    *)
(* Here pipeline holds the content script's isInjected, the look of the     *)
(* button and the reset timers set, call the handleButtonClick invocations  *)
(* that wait for the worker, each with the answers it has got, and ret the  *)
(* answers of the invocation that last set isInjected.                      *)

\* What handleButtonClick asks of the worker, in its order
InjectionSteps ==
    << [action |-> "injectCSS", name |-> "patplacer.css"],
       [action |-> "executeScript", name |-> "image-processor.js"],
       [action |-> "executeScript", name |-> "patplacer-main.js"] >>

\* Most reset timers set at a time
MaxTimers == 2

InitInject ==
    /\ canvas = NoCanvas
    /\ colorCache = EmptyMap
    /\ labCache = EmptyMap
    /\ ditherBuffers = 0
    /\ pipeline = [isInjected |-> FALSE, button |-> "initial", timers |-> 0]
    /\ call = <<>>
    /\ ret = <<>>

\* handleButtonClick up to its first await: with isInjected it only posts
\* togglePanel to the page
HandleButtonClick ==
    /\ Len(call) < MaxClicks
    /\ IF pipeline.isInjected
       THEN UNCHANGED <<pipeline, call>>
       ELSE /\ pipeline' = [pipeline EXCEPT !.button = "loading"]
            /\ call' = Append(call, [answers |-> <<>>])
    /\ UNCHANGED <<canvas, colorCache, labCache, ditherBuffers, ret>>

\* The onMessage listener of the worker: executeLocalScript or injectCSS runs,
\* and sendResponse answers { success: true } or { success: false, error }
WorkerAnswer(step, injected) ==
    [action |-> step.action, name |-> step.name, success |-> injected]

\* The k-th invocation gets the answer to its request.  The message reaches the
\* worker or sendMessage rejects; in the worker the injection succeeds or fails.
\* The invocation goes on to its next await, to its end or to its catch
Answered(k) ==
    /\ k \in 1..Len(call)
    /\ \E delivered \in BOOLEAN, injected \in BOOLEAN :
         LET step == InjectionSteps[Len(call[k].answers) + 1]
             answers == Append(call[k].answers, WorkerAnswer(step, injected))
         IN  IF ~delivered
             THEN /\ pipeline.timers < MaxTimers
                  /\ pipeline' = [pipeline EXCEPT !.button = "error",
                                                  !.timers = @ + 1]
                  /\ call' = RemoveAt(call, k)
                  /\ UNCHANGED ret
             ELSE IF Len(answers) < Len(InjectionSteps)
             THEN /\ call' = [call EXCEPT ![k] = [answers |-> answers]]
                  /\ UNCHANGED <<pipeline, ret>>
             ELSE /\ pipeline' = [pipeline EXCEPT !.isInjected = TRUE,
                                                  !.button = "active"]
                  /\ call' = RemoveAt(call, k)
                  /\ ret' = answers
    /\ UNCHANGED <<canvas, colorCache, labCache, ditherBuffers>>

\* The timer of the catch block fires: resetButton()
ResetButton ==
    /\ pipeline.timers > 0
    /\ pipeline' = [isInjected |-> FALSE, button |-> "initial",
                    timers |-> pipeline.timers - 1]
    /\ UNCHANGED <<canvas, colorCache, labCache, ditherBuffers, call, ret>>

NextInject ==
    \/ HandleButtonClick
    \/ (\E k \in 1..MaxClicks : Answered(k))
    \/ ResetButton

SpecInject == InitInject /\ [][NextInject]_vars

-----------------------------------------------------------------------------
(* Claims about the injection *)

\* C30, the order: isInjected is set by an invocation that got the answers to the
\* stylesheet, the image processor and the main script, in this order
C30_SetAfterThreeAnswersInOrder ==
    ret # <<>> =>
        /\ Len(ret) = 3
        /\ \A s \in 1..3 : /\ ret[s].action = InjectionSteps[s].action
                           /\ ret[s].name = InjectionSteps[s].name

\* C30: isInjected becomes true only after the stylesheet, the image processor
\* and the main script were each injected successfully, in this order; when an
\* injection fails in the worker, isInjected stays false
C30_InjectedOnlyAfterThreeSuccesses ==
    ret # <<>> => \A s \in 1..Len(ret) : ret[s].success

====
